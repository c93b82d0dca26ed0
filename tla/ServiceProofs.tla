--------------------------- MODULE ServiceProofs ----------------------------
(***************************************************************************)
(* Theorems about parts of the control plane that share no state: the      *)
(* delivery of tool calls, for any sequence of bases and any number of     *)
(* calls, what a run leaves behind, for any number of runs and faults, the *)
(* smoke test of any application that can pass it, the seeds of the kernel *)
(* in any number of starts, the readers of the event ledger for any        *)
(* limits, the search for the source of any artifact and the mounts of any *)
(* bindings.                                                               *)
(***************************************************************************)
EXTENDS McpDelivery, RunTrail, ContractExercise, KernelStartup, EventFeed,
        SourceResolution, ArtifactMounts, SequenceTheorems, FiniteSetTheorems,
        WellFoundedInduction, TLAPS

(* The fields of the record of a call.                                     *)
CallFields == {"kind", "stage", "todo", "at", "spare", "nested", "static",
               "out", "delivery"}
IsCall(c) == c = [f \in CallFields |-> c[f]]

(* Until a control action is answered, it was told nothing but a 404 or    *)
(* 405, it is neither rebound nor reissued, and it took no effect; and an  *)
(* exchange with the configured bearer has been marked as one.             *)
StillUnapplied ==
    call.kind = "control" /\ call.stage # "done" =>
        /\ call.stage # "reissue" /\ call.delivery = "" /\ ~call.nested
        /\ call.out \in {"", "missing"}
        /\ call.stage \in {"after_redirect", "after_refusal"} => call.static
        /\ applied = 0

(* The invariant of a call.                                                *)
CallInv ==
    /\ IsCall(call) /\ applied \in 0..2
    /\ StillUnapplied /\ ControlActionOnce

(* What an exchange may have done to the control plane, given what it is   *)
(* taken for: a failure r that was not sent had no effect, unless its      *)
(* bearer was the second one.                                              *)
FailureIsTrue(r) ==
    /\ r # "ok" /\ applied' \in 0..2
    /\ call.kind = "control" =>
           /\ applied' \in 0..1
           /\ applied' = 1 => r \in ServerErrors \/ (call.static /\ r # "missing")

-----------------------------------------------------------------------------
(* What a single exchange can add to the effects of a call.                *)
LEMMA ExchangeApplies ==
    ASSUME CallInv, call.stage # "done", NEW a, NEW s, Exchanged(a, s)
    PROVE  /\ a \in Answers /\ applied' \in 0..2
           /\ call.kind = "control" =>
                  /\ applied' \in 0..1
                  /\ a = "ok" => applied' = 1
                  /\ applied' = 1 => a \in {"ok", "none", "error", "unavailable"}
<1>1. PICK n \in CASE Posts(call.kind) /\ a = "ok" -> {1}
                   [] Posts(call.kind) /\ a \in {"none", "error", "unavailable"} -> {0, 1}
                   [] OTHER -> {0} :
           applied' = IF applied + n > 2 THEN 2 ELSE applied + n
  BY DEF Exchanged
<1>2. n \in 0..1
  BY <1>1
<1>3. call.kind = "control" => (a = "ok" => n = 1)
                               /\ (n = 1 => a \in {"ok", "none", "error", "unavailable"})
  BY <1>1 DEF Posts
<1>4. call.kind = "control" => applied = 0
  BY DEF CallInv, StillUnapplied
<1>5. a \in Answers
  BY DEF Exchanged
<1> QED
  BY <1>1, <1>2, <1>3, <1>4, <1>5 DEF CallInv

(* What an answered call looks like.                                       *)
LEMMA EndedFields ==
    ASSUME CallInv, NEW r
    PROVE  /\ IsCall(Ended(call, r))
           /\ Ended(call, r).kind = call.kind /\ Ended(call, r).stage = "done"
           /\ Ended(call, r).static = call.static
           /\ Ended(call, r).delivery = Delivery(r)
BY DEF IsCall, CallInv, CallFields, Ended

(* The caller of a control action is told no more than its answer says.    *)
LEMMA EndedKeeps ==
    ASSUME CallInv, NEW r, call' = Ended(call, r), applied' \in 0..2,
           call.kind = "control" =>
               /\ applied' \in 0..1
               /\ r = "ok" => applied' = 1
               /\ applied' = 1 => r = "ok" \/ r \in ServerErrors \/ call.static
    PROVE  CallInv'
<1>1. /\ IsCall(call')
      /\ call'.kind = call.kind /\ call'.stage = "done"
      /\ call'.static = call.static /\ call'.delivery = Delivery(r)
  BY EndedFields
<1>2. ControlActionOnce'
  BY <1>1 DEF Delivery, Posts, ControlActionOnce
<1> QED
  BY <1>1, <1>2 DEF CallInv, StillUnapplied

(* A failed attempt ends the call truthfully or goes on to the next one.   *)
LEMMA FailureKeeps ==
    ASSUME CallInv, call.stage # "done", NEW r, FailureIsTrue(r), ReturnFailure(r)
    PROVE  CallInv'
<1> USE DEF CallInv, CallFields, FailureIsTrue
<1>1. CASE ~MayTryElsewhere(r)
  <2>1. call' = Ended(call, r)
    BY <1>1 DEF ReturnFailure
  <2> QED
    BY <2>1, EndedKeeps
<1>2. CASE MayTryElsewhere(r) /\ call.kind = "control"
  <2>1. r = "missing" /\ applied' = 0
    BY <1>2 DEF MayTryElsewhere, Posts, ServerErrors
  <2>2. call' = Search(call, "missing")
    BY <1>2, <2>1 DEF ReturnFailure
  <2>3. CASE call.todo = <<>>
    <3>1. call' = Ended(call, "missing")
      BY <1>2, <2>2, <2>3 DEF Search, StillUnapplied
    <3> QED
      BY <3>1, <2>1, EndedKeeps
  <2>4. CASE call.todo # <<>>
    <3>1. call' = [call EXCEPT !.out = "missing", !.stage = "send", !.at = Head(call.todo),
                               !.todo = Tail(call.todo), !.nested = FALSE]
      BY <1>2, <2>2, <2>4 DEF Search, StillUnapplied
    <3>2. /\ IsCall(call') /\ call'.stage = "send" /\ call'.out = "missing"
          /\ call'.delivery = "" /\ ~call'.nested
      BY <1>2, <3>1 DEF StillUnapplied, IsCall
    <3>3. StillUnapplied'
      BY <2>1, <3>2 DEF StillUnapplied
    <3>4. call'.delivery # "definitely_applied" /\ call'.delivery # "not_sent"
      BY <3>2
    <3>5. ControlActionOnce'
      BY <2>1, <3>4 DEF ControlActionOnce
    <3> QED
      BY <3>2, <3>3, <3>5
  <2> QED
    BY <2>3, <2>4
<1>3. CASE MayTryElsewhere(r) /\ call.kind # "control"
  <2>1. call' = Search(call, r)
    BY <1>3 DEF ReturnFailure
  <2>2. IsCall(call') /\ call'.kind = call.kind
    BY <2>1 DEF Search, Ended, IsCall
  <2> QED
    BY <1>3, <2>2 DEF StillUnapplied, ControlActionOnce
<1> QED
  BY <1>1, <1>2, <1>3

(* So does a 2xx answer: a POST ends with it, a read may go on.            *)
LEMMA OkKeeps ==
    ASSUME CallInv, call.stage # "done", NEW b, NEW s, ReturnOk(b, s),
           applied' \in 0..2, call.kind = "control" => applied' = 1
    PROVE  CallInv'
<1> USE DEF CallInv, CallFields
<1>1. CASE call.kind = "control"
  <2>1. call' = Ended(call, "ok")
    BY <1>1 DEF ReturnOk, Posts
  <2> QED
    BY <1>1, <2>1, EndedKeeps
<1>2. CASE call.kind # "control"
  <2>1. call' = Ended(call, "ok") \/ call' = Search(call, "empty")
    BY DEF ReturnOk
  <2>2. IsCall(call') /\ call'.kind = call.kind
    BY <2>1 DEF Search, Ended, IsCall
  <2> QED
    BY <1>2, <2>2 DEF StillUnapplied, ControlActionOnce
<1> QED
  BY <1>1, <1>2

(* Repeating the exchange with the configured bearer, after an answer that *)
(* shows no effect.                                                        *)
LEMMA StaticKeeps ==
    ASSUME CallInv, call.stage # "done",
           NEW stage \in {"after_redirect", "after_refusal"}, RetryStatic(stage),
           applied' \in 0..2, call.kind = "control" => applied' = 0
    PROVE  CallInv'
BY DEF IsCall, IsCall, CallInv, CallFields, RetryStatic, StillUnapplied, ControlActionOnce

(* A classified failure: a control action is never sent to another base.   *)
LEMMA ClassifiedKeeps ==
    ASSUME CallInv, call.stage # "done", NEW r, FailureIsTrue(r), Classified(r)
    PROVE  CallInv'
<1>1. CASE ReturnFailure(r)
  BY <1>1, FailureKeeps
<1>2. CASE /\ ~Posts(call.kind) \/ MayReissue
           /\ call' = [call EXCEPT !.at[1] = Head(Reordered(TRUE)), !.stage = "send",
                                   !.nested = TRUE]
  <2>1. call.kind # "control"
    BY <1>2 DEF MayReissue, Reissued, Posts
  <2>2. IsCall(call') /\ call'.kind = call.kind
    BY <1>2 DEF IsCall, CallInv, CallFields
  <2> QED
    BY <2>1, <2>2 DEF CallInv, FailureIsTrue, StillUnapplied, ControlActionOnce
<1> QED
  BY <1>1, <1>2 DEF Classified

-----------------------------------------------------------------------------
(* The first exchange of an attempt.                                       *)
LEMMA SendKeeps ==
    ASSUME CallInv, NEW a, NEW s, Send(a, s) PROVE CallInv'
<1>1. call.stage = "send" /\ Exchanged(a, s)
  BY DEF Send
<1>2. /\ a \in Answers /\ applied' \in 0..2
      /\ call.kind = "control" =>
             /\ applied' \in 0..1
             /\ a = "ok" => applied' = 1
             /\ applied' = 1 => a \in {"ok", "none", "error", "unavailable"}
  BY <1>1, ExchangeApplies
<1>3. CASE a = "ok"
  <2>1. ReturnOk(call.at[1], s)
    BY <1>3 DEF Send
  <2> QED
    BY <1>1, <1>2, <1>3, <2>1, OkKeeps
<1>4. CASE a = "none"
  <2>1. FailureIsTrue("unreachable")
    BY <1>2, <1>4 DEF FailureIsTrue, ServerErrors
  <2>2. CASE ReturnFailure("unreachable")
    BY <1>1, <2>1, <2>2, FailureKeeps
  <2>3. CASE /\ MayReissue
             /\ call' = [call EXCEPT !.stage = "reissue",
                                     !.spare = Without(call.at[1])]
    <3>1. call.kind # "control"
      BY <2>3 DEF MayReissue, Reissued
    <3>2. IsCall(call') /\ call'.kind = call.kind
      BY <2>3 DEF IsCall, CallInv, CallFields
    <3> QED
      BY <1>2, <3>1, <3>2 DEF CallInv, StillUnapplied, ControlActionOnce
  <2> QED
    BY <1>4, <2>2, <2>3 DEF Send
<1>5. CASE a = "redirect" /\ bearers
  <2>1. RetryStatic("after_redirect")
    BY <1>5 DEF Send
  <2> QED
    BY <1>1, <1>2, <1>5, <2>1, StaticKeeps
<1>6. CASE a = "redirect" /\ ~bearers
  <2>1. ReturnFailure("redirected") /\ FailureIsTrue("redirected")
    BY <1>2, <1>6 DEF Send, FailureIsTrue
  <2> QED
    BY <1>1, <2>1, FailureKeeps
<1>7. CASE a = "unauthorized" /\ bearers
  <2>1. RetryStatic("after_refusal")
    BY <1>7 DEF Send
  <2> QED
    BY <1>1, <1>2, <1>7, <2>1, StaticKeeps
<1>8. CASE a \notin {"ok", "none", "redirect"} /\ ~(a = "unauthorized" /\ bearers)
  <2>1. Classified(a) /\ FailureIsTrue(a)
    BY <1>2, <1>8 DEF Send, FailureIsTrue, ServerErrors
  <2> QED
    BY <1>1, <2>1, ClassifiedKeeps
<1> QED
  BY <1>3, <1>4, <1>5, <1>6, <1>7, <1>8

(* A reissue is never one of a control action.                             *)
LEMMA ReissueKeeps ==
    ASSUME CallInv, NEW a, NEW s, Reissue(a, s) PROVE CallInv'
<1>1. call.stage = "reissue" /\ Exchanged(a, s)
  BY DEF Reissue
<1>2. call.kind # "control" /\ a \in Answers /\ applied' \in 0..2
  BY <1>1, ExchangeApplies DEF CallInv, StillUnapplied
<1>3. CASE a = "ok"
  <2>1. ReturnOk(Head(call.spare), s)
    BY <1>3 DEF Reissue
  <2> QED
    BY <1>1, <1>2, <2>1, OkKeeps
<1>4. CASE a # "ok" /\ \E r \in {"unreachable", "moved", a} : ReturnFailure(r)
  <2>1. PICK r \in {"unreachable", "moved", a} : ReturnFailure(r)
    BY <1>4
  <2>2. FailureIsTrue(r)
    BY <1>2, <1>4 DEF FailureIsTrue
  <2> QED
    BY <1>1, <2>1, <2>2, FailureKeeps
<1>5. CASE call' = [call EXCEPT !.spare = Tail(@)]
  <2>1. IsCall(call') /\ call'.kind = call.kind
    BY <1>5 DEF IsCall, CallInv, CallFields
  <2> QED
    BY <1>2, <2>1 DEF CallInv, StillUnapplied, ControlActionOnce
<1> QED
  BY <1>3, <1>4, <1>5 DEF Reissue

(* The exchange with the configured bearer after a login redirect.         *)
LEMMA AfterRedirectKeeps ==
    ASSUME CallInv, NEW a, NEW s, AfterRedirect(a, s) PROVE CallInv'
<1>1. call.stage = "after_redirect" /\ Exchanged(a, s)
  BY DEF AfterRedirect
<1>2. /\ a \in Answers /\ applied' \in 0..2
      /\ call.kind = "control" =>
             /\ applied' \in 0..1 /\ call.static
             /\ a = "ok" => applied' = 1
             /\ applied' = 1 => a \in {"ok", "none", "error", "unavailable"}
  BY <1>1, ExchangeApplies DEF CallInv, StillUnapplied
<1>3. CASE a = "ok"
  <2>1. ReturnOk(call.at[1], s)
    BY <1>3 DEF AfterRedirect
  <2> QED
    BY <1>1, <1>2, <1>3, <2>1, OkKeeps
<1>4. CASE a \in {"none", "redirect"}
  <2>1. ReturnFailure("redirected") /\ FailureIsTrue("redirected")
    BY <1>2, <1>4 DEF AfterRedirect, FailureIsTrue
  <2> QED
    BY <1>1, <2>1, FailureKeeps
<1>5. CASE a = "unauthorized"
  <2>1. RetryStatic("after_refusal")
    BY <1>5 DEF AfterRedirect
  <2> QED
    BY <1>1, <1>2, <1>5, <2>1, StaticKeeps
<1>6. CASE a \notin {"ok", "none", "redirect", "unauthorized"}
  <2>1. Classified(a) /\ FailureIsTrue(a)
    BY <1>2, <1>6 DEF AfterRedirect, FailureIsTrue, ServerErrors
  <2> QED
    BY <1>1, <2>1, ClassifiedKeeps
<1> QED
  BY <1>3, <1>4, <1>5, <1>6

(* The exchange with the configured bearer after a 401 or 403.             *)
LEMMA AfterRefusalKeeps ==
    ASSUME CallInv, NEW a, NEW s, AfterRefusal(a, s) PROVE CallInv'
<1>1. call.stage = "after_refusal" /\ Exchanged(a, s)
  BY DEF AfterRefusal
<1>2. /\ a \in Answers /\ applied' \in 0..2
      /\ call.kind = "control" =>
             /\ applied' \in 0..1 /\ call.static
             /\ a = "ok" => applied' = 1
             /\ applied' = 1 => a \in {"ok", "none", "error", "unavailable"}
  BY <1>1, ExchangeApplies DEF CallInv, StillUnapplied
<1>3. CASE a = "ok" /\ ~Posts(call.kind) /\ SurfaceIsEmpty(s)
  <2>1. call' = Search(call, "empty") /\ call.kind # "control"
    BY <1>3 DEF AfterRefusal, Posts
  <2>2. IsCall(call') /\ call'.kind = call.kind
    BY <2>1 DEF Search, Ended, IsCall, CallInv, CallFields
  <2> QED
    BY <1>2, <2>1, <2>2 DEF CallInv, StillUnapplied, ControlActionOnce
<1>4. CASE a = "ok" /\ (Posts(call.kind) \/ ~SurfaceIsEmpty(s))
  <2>1. ReturnOk(call.at[1], s)
    BY <1>4 DEF AfterRefusal
  <2> QED
    BY <1>1, <1>2, <1>4, <2>1, OkKeeps
<1>5. CASE a = "none"
  <2>1. ReturnFailure("unauthorized") /\ FailureIsTrue("unauthorized")
    BY <1>2, <1>5 DEF AfterRefusal, FailureIsTrue
  <2> QED
    BY <1>1, <2>1, FailureKeeps
<1>6. CASE a = "redirect"
  <2>1. ReturnFailure("redirected") /\ FailureIsTrue("redirected")
    BY <1>2, <1>6 DEF AfterRefusal, FailureIsTrue
  <2> QED
    BY <1>1, <2>1, FailureKeeps
<1>7. CASE a \notin {"ok", "none", "redirect"}
  <2>1. ReturnFailure(a) /\ FailureIsTrue(a)
    BY <1>2, <1>7 DEF AfterRefusal, FailureIsTrue, ServerErrors
  <2> QED
    BY <1>1, <2>1, FailureKeeps
<1> QED
  BY <1>3, <1>4, <1>5, <1>6, <1>7

LEMMA CallStart == McpInit => CallInv
<1> SUFFICES ASSUME McpInit PROVE CallInv
  OBVIOUS
<1>1. IsCall(call) /\ call.kind = "read" /\ applied = 0
  BY DEF McpInit, Idle, IsCall, CallFields
<1> QED
  BY <1>1 DEF CallInv, StillUnapplied, ControlActionOnce

LEMMA CallStep == CallInv /\ [McpNext]_mcpVars => CallInv'
<1> SUFFICES ASSUME CallInv, [McpNext]_mcpVars PROVE CallInv'
  OBVIOUS
<1>1. ASSUME NEW kind \in Kinds, NEW differs \in BOOLEAN, StartCall(kind, differs)
      PROVE  CallInv'
  <2>1. PICK at, todo :
            call' = [Idle EXCEPT !.kind = kind, !.stage = "send", !.at = at, !.todo = todo]
    BY <1>1 DEF StartCall
  <2>2. applied' = 0
    BY <1>1 DEF StartCall
  <2>3. /\ IsCall(call') /\ call'.stage = "send"
        /\ call'.delivery = "" /\ call'.out = "" /\ ~call'.nested
    BY <2>1 DEF Idle, IsCall, CallFields
  <2>4. StillUnapplied'
    BY <2>2, <2>3 DEF StillUnapplied
  <2>5. ControlActionOnce'
    <3>1. applied' < 2
      BY <2>2
    <3>2. call'.delivery # "definitely_applied" /\ call'.delivery # "not_sent"
      BY <2>3
    <3>3. QED BY <3>1, <3>2 DEF ControlActionOnce
  <2>6. applied' \in 0..2
    BY <2>2
  <2> QED
    BY <2>3, <2>4, <2>5, <2>6 DEF CallInv
<1>2. ASSUME Exchange PROVE CallInv'
  BY <1>2, SendKeeps, ReissueKeeps, AfterRedirectKeeps, AfterRefusalKeeps DEF Exchange
<1>3. CASE UNCHANGED mcpVars
  BY <1>3 DEF mcpVars, CallInv, StillUnapplied, ControlActionOnce
<1> QED
  BY <1>1, <1>2, <1>3 DEF McpNext

(***************************************************************************)
(* A control action takes effect at most once and its caller is told the   *)
(* truth, over any number of bases, paths, bearers and calls (ReturnOk,    *)
(* _request and _request_with_fallback_paths).                             *)
(***************************************************************************)
THEOREM ControlActionsTakeEffectOnce == McpSpec => []ControlActionOnce
<1>1. CallInv => ControlActionOnce
  BY DEF CallInv
<1> QED
  BY <1>1, CallStart, CallStep, PTL DEF McpSpec

(* The types of a call.                                                    *)
Tries == ToSet(Bases) \X ToSet(Paths)

CallFits(c) ==
    /\ IsCall(c)
    /\ c.kind \in Kinds /\ c.nested \in BOOLEAN
    /\ c.stage \in {"idle", "send", "reissue", "after_redirect", "after_refusal", "done"}
    /\ c.stage = "done" => c.out # ""
    /\ c.todo \in Seq(Tries)
    /\ c.stage \notin {"idle", "done"} => 1 \in DOMAIN c.at /\ c.at[1] \in ToSet(Bases)
    /\ c.stage = "reissue" => c.spare \in Seq(ToSet(Bases)) /\ c.spare # <<>>

BindingFits == binding \in [base : ToSet(Bases) \union {NoBase}, surface : BOOLEAN]

McpInv == BindingFits /\ CallFits(call) /\ applied \in 0..2 /\ calls \in 0..MaxCalls

(* What a reordering of the bases consists of.                             *)
LEMMA WithoutIsOfBases ==
    ASSUME NEW base \in ToSet(Bases)
    PROVE  Without(base) \in Seq(ToSet(Bases))
<1>1. Bases \in Seq(ToSet(Bases))
  BY BasesAssumption
<1>2. \E i \in DOMAIN Bases : Bases[i] = base
  BY DEF ToSet
<1>3. PICK i \in DOMAIN Bases : Without(base) = SubSeq(Bases, 1, i - 1) \o SubSeq(Bases, i + 1, Len(Bases))
  BY <1>2 DEF Without, RemoveAt
<1>4. i \in 1..Len(Bases) /\ Len(Bases) \in Nat
  BY <1>1
<1>5. SubSeq(Bases, 1, i - 1) \in Seq(ToSet(Bases))
  <2>1. \A k \in 1..(i - 1) : k \in 1..Len(Bases)
    BY <1>4
  <2> QED
    BY <1>1, <1>4, <2>1, SubSeqProperties
<1>6. SubSeq(Bases, i + 1, Len(Bases)) \in Seq(ToSet(Bases))
  BY <1>1, <1>4, SubSeqProperties
<1> QED
  BY <1>3, <1>5, <1>6

LEMMA ReorderedIsOfBases ==
    ASSUME BindingFits, NEW refresh
    PROVE  Reordered(refresh) \in Seq(ToSet(Bases)) /\ Reordered(refresh) # <<>>
<1>1. Bases \in Seq(ToSet(Bases)) /\ Len(Bases) > 0
  BY BasesAssumption
<1>2. ASSUME binding.base # NoBase
      PROVE  /\ Append(Without(binding.base), binding.base) \in Seq(ToSet(Bases)) \ {<<>>}
             /\ <<binding.base>> \o Without(binding.base) \in Seq(ToSet(Bases)) \ {<<>>}
  <2>1. binding.base \in ToSet(Bases)
    BY <1>2 DEF BindingFits
  <2>2. Without(binding.base) \in Seq(ToSet(Bases))
    BY <2>1, WithoutIsOfBases
  <2> QED
    BY <2>1, <2>2
<1> QED
  BY <1>1, <1>2 DEF Reordered

LEMMA AttemptsAreTries ==
    ASSUME NEW bases \in Seq(ToSet(Bases)), bases # <<>>
    PROVE  Attempts(bases) \in Seq(Tries) /\ Attempts(bases) # <<>>
<1>1. Len(bases) \in Nat \ {0}
  OBVIOUS
<1>2. ASSUME NEW n \in 1..2 * Len(bases)
      PROVE  <<bases[(n + 1) \div 2], Paths[2 - (n % 2)]>> \in Tries
  <2>1. (n + 1) \div 2 \in 1..Len(bases) /\ 2 - (n % 2) \in 1..2
    BY <1>1, <1>2
  <2>2. \A k \in 1..2 : Paths[k] \in ToSet(Paths)
    BY DEF Paths, ToSet
  <2> QED
    BY <2>1, <2>2 DEF Tries
<1>3. 2 * Len(bases) \in Nat \ {0}
  BY <1>1
<1>4. DEFINE N == 2 * Len(bases)
<1>5. Attempts(bases) \in [1..N -> Tries]
  BY <1>2 DEF Attempts
<1>6. N \in Nat \ {0}
  BY <1>3
<1> HIDE DEF N
<1> QED
  BY <1>5, <1>6

LEMMA TryHasBase ==
    ASSUME NEW t \in Tries
    PROVE  1 \in DOMAIN t /\ t[1] \in ToSet(Bases)
BY DEF Tries

LEMMA LongTail ==
    ASSUME NEW S, NEW s \in Seq(S), s # <<>>
    PROVE  /\ Len(s) > 1 \/ Len(s) = 1
           /\ Len(s) > 1 => Tail(s) \in Seq(S) /\ Tail(s) # <<>>
<1>1. PICK n \in Nat \ {0} : n = Len(s)
  BY EmptySeq
<1>2. PICK t \in Seq(S) : t = Tail(s) /\ Len(t) = n - 1
  BY <1>1, HeadTailProperties
<1>3. n > 1 \/ n = 1
  BY <1>1
<1>4. n > 1 => t # <<>>
  BY <1>1, <1>2, EmptySeq
<1> QED
  BY <1>1, <1>2, <1>3, <1>4

(* An answered call, and one that is tried elsewhere, keep their types.    *)
LEMMA EndedFits ==
    ASSUME NEW c, CallFits(c), NEW r, r # ""
    PROVE  CallFits(Ended(c, r)) /\ Ended(c, r).stage = "done"
<1>1. /\ Ended(c, r).kind = c.kind /\ Ended(c, r).stage = "done" /\ Ended(c, r).out = r
      /\ Ended(c, r).todo = <<>> /\ Ended(c, r).nested = FALSE
      /\ IsCall(Ended(c, r))
  BY DEF CallFits, IsCall, CallFields, Ended
<1>2. <<>> \in Seq(Tries)
  BY EmptySeq
<1> QED
  BY <1>1, <1>2 DEF CallFits

LEMMA SearchFits ==
    ASSUME NEW c, CallFits(c), NEW r, r # ""
    PROVE  CallFits(Search(c, r))
<1> DEFINE kept == IF c.out = "" \/ (r \in {"redirected", "unauthorized", "forbidden"}
                                     /\ c.out \notin {"redirected", "unauthorized", "forbidden"})
                   THEN r ELSE c.out
           d == [c EXCEPT !.out = kept, !.stage = "send", !.at = Head(c.todo),
                          !.todo = Tail(c.todo), !.nested = FALSE]
<1>1. kept # "" /\ (Search(c, r) = IF c.todo = <<>> THEN Ended(c, kept) ELSE d)
  BY DEF Search
<1> HIDE DEF kept
<1>2. CASE c.todo = <<>>
  BY <1>1, <1>2, EndedFits
<1>3. CASE c.todo # <<>>
  <2>1. /\ d.kind = c.kind /\ d.stage = "send" /\ d.nested = FALSE /\ d.at = Head(c.todo)
        /\ d.todo = Tail(c.todo) /\ IsCall(d)
    BY DEF CallFits, IsCall, CallFields
  <2> HIDE DEF d
  <2>2. Head(c.todo) \in Tries /\ Tail(c.todo) \in Seq(Tries)
    BY <1>3, HeadTailProperties DEF CallFits
  <2>3. 1 \in DOMAIN d.at /\ d.at[1] \in ToSet(Bases)
    BY <2>1, <2>2, TryHasBase
  <2> QED
    BY <1>1, <1>3, <2>1, <2>2, <2>3 DEF CallFits
<1> QED
  BY <1>2, <1>3

LEMMA FailureFits ==
    ASSUME CallFits(call), BindingFits, NEW r, r # "", ReturnFailure(r)
    PROVE  CallFits(call') /\ BindingFits'
BY EndedFits, SearchFits DEF ReturnFailure, BindingFits

LEMMA SucceededFits ==
    ASSUME BindingFits, NEW b \in ToSet(Bases), NEW surface, binding' = Succeeded(b, surface)
    PROVE  BindingFits'
BY DEF BindingFits, Succeeded

LEMMA OkFits ==
    ASSUME CallFits(call), BindingFits, NEW b \in ToSet(Bases), NEW surface,
           ReturnOk(b, surface)
    PROVE  CallFits(call') /\ BindingFits'
<1>1. CallFits(Search(call, "empty")) /\ CallFits(Ended(call, "ok"))
  BY EndedFits, SearchFits
<1>2. BindingFits'
  <2>1. CASE UNCHANGED binding
    BY <2>1 DEF BindingFits
  <2> QED
    BY <2>1, SucceededFits DEF ReturnOk
<1> QED
  BY <1>1, <1>2 DEF ReturnOk

(* A call that is under way and moves to another stage.                    *)
LEMMA StageFits ==
    ASSUME CallFits(call), call.stage \notin {"idle", "done"}, BindingFits,
           NEW stage \in {"after_redirect", "after_refusal"}, RetryStatic(stage)
    PROVE  CallFits(call') /\ BindingFits'
<1>1. /\ call'.kind = call.kind /\ call'.stage = stage /\ call'.nested = call.nested
      /\ call'.at = call.at /\ call'.todo = call.todo /\ IsCall(call')
  BY DEF RetryStatic, CallFits, IsCall, CallFields
<1> QED
  BY <1>1 DEF CallFits, BindingFits, RetryStatic

LEMMA ClassifiedFits ==
    ASSUME CallFits(call), call.stage \notin {"idle", "done"}, BindingFits,
           NEW r \in Answers, Classified(r)
    PROVE  CallFits(call') /\ BindingFits'
<1>1. r # ""
  BY DEF Answers
<1>2. CASE ReturnFailure(r)
  BY <1>1, <1>2, FailureFits
<1>3. CASE /\ call' = [call EXCEPT !.at[1] = Head(Reordered(TRUE)), !.stage = "send",
                                   !.nested = TRUE]
           /\ UNCHANGED binding
  <2>1. /\ call'.kind = call.kind /\ call'.stage = "send" /\ call'.nested = TRUE
        /\ call'.at = [call.at EXCEPT ![1] = Head(Reordered(TRUE))]
        /\ call'.todo = call.todo /\ IsCall(call')
    BY <1>3 DEF CallFits, IsCall, CallFields
  <2>2. Head(Reordered(TRUE)) \in ToSet(Bases)
    BY ReorderedIsOfBases, HeadTailProperties
  <2>3. 1 \in DOMAIN call'.at /\ call'.at[1] \in ToSet(Bases)
    BY <2>1, <2>2 DEF CallFits
  <2> QED
    BY <1>3, <2>1, <2>3 DEF CallFits, BindingFits
<1> QED
  BY <1>2, <1>3 DEF Classified

LEMMA ExchangeFits ==
    ASSUME McpInv, NEW a \in Answers, NEW s \in Surfaces, Exchanged(a, s)
    PROVE  applied' \in 0..2 /\ calls' \in 0..MaxCalls
<1>1. PICK n \in {0, 1} : applied' = IF applied + n > 2 THEN 2 ELSE applied + n
  BY DEF Exchanged
<1> QED
  BY <1>1 DEF Exchanged, McpInv

LEMMA SendFits ==
    ASSUME McpInv, NEW a \in Answers, NEW s \in Surfaces, Send(a, s)
    PROVE  CallFits(call') /\ BindingFits'
<1>1. /\ CallFits(call) /\ BindingFits /\ call.stage = "send"
      /\ call.at[1] \in ToSet(Bases)
  BY DEF McpInv, CallFits, Send
<1>2. CASE a = "ok"
  BY <1>1, <1>2, OkFits DEF Send
<1>3. CASE a = "none"
  <2>1. CASE ReturnFailure("unreachable")
    BY <1>1, <2>1, FailureFits
  <2>2. CASE /\ Without(call.at[1]) # <<>>
             /\ call' = [call EXCEPT !.stage = "reissue", !.spare = Without(call.at[1])]
             /\ UNCHANGED binding
    <3>1. /\ call'.kind = call.kind /\ call'.stage = "reissue" /\ call'.nested = call.nested
          /\ call'.at = call.at /\ call'.todo = call.todo
          /\ call'.spare = Without(call.at[1]) /\ IsCall(call')
      BY <1>1, <2>2 DEF CallFits, IsCall, CallFields
    <3>2. call'.spare \in Seq(ToSet(Bases)) /\ call'.spare # <<>>
      BY <1>1, <2>2, <3>1, WithoutIsOfBases
    <3> QED
      BY <1>1, <2>2, <3>1, <3>2 DEF CallFits, BindingFits
  <2> QED
    BY <1>3, <2>1, <2>2 DEF Send
<1>4. CASE a = "redirect"
  BY <1>1, <1>4, StageFits, FailureFits DEF Send
<1>5. CASE a = "unauthorized" /\ bearers
  BY <1>1, <1>5, StageFits DEF Send
<1>6. CASE a \notin {"ok", "none", "redirect"} /\ ~(a = "unauthorized" /\ bearers)
  <2>1. Classified(a)
    BY <1>6 DEF Send
  <2> QED
    BY <1>1, <2>1, ClassifiedFits
<1> QED
  BY <1>2, <1>3, <1>4, <1>5, <1>6

LEMMA ReissueFits ==
    ASSUME McpInv, NEW a \in Answers, NEW s \in Surfaces, Reissue(a, s)
    PROVE  CallFits(call') /\ BindingFits'
<1>1. /\ CallFits(call) /\ BindingFits /\ call.stage = "reissue"
      /\ call.spare \in Seq(ToSet(Bases)) /\ call.spare # <<>>
  BY DEF McpInv, CallFits, Reissue
<1>2. Head(call.spare) \in ToSet(Bases) /\ a # ""
  BY <1>1, HeadTailProperties DEF Answers
<1>3. CASE a = "ok"
  BY <1>1, <1>2, <1>3, OkFits DEF Reissue
<1>4. CASE /\ Len(call.spare) > 1
           /\ call' = [call EXCEPT !.spare = Tail(@)] /\ UNCHANGED binding
  <2>1. call' = [call EXCEPT !.spare = Tail(call.spare)] /\ UNCHANGED binding
    BY <1>4
  <2>2. /\ call'.kind = call.kind /\ call'.stage = "reissue" /\ call'.nested = call.nested
        /\ call'.at = call.at /\ call'.todo = call.todo
        /\ call'.spare = Tail(call.spare) /\ IsCall(call')
    BY <1>1, <2>1 DEF CallFits, IsCall, CallFields
  <2>3. Tail(call.spare) \in Seq(ToSet(Bases)) /\ Tail(call.spare) # <<>>
    BY <1>1, <1>4, LongTail
  <2> QED
    BY <1>1, <2>1, <2>2, <2>3 DEF CallFits, BindingFits
<1>5. CASE \E r \in {"unreachable", "moved", a} : ReturnFailure(r)
  BY <1>1, <1>2, <1>5, FailureFits
<1>6. Len(call.spare) > 1 \/ Len(call.spare) = 1
  BY <1>1, LongTail
<1> QED
  BY <1>3, <1>4, <1>5, <1>6 DEF Reissue

LEMMA AfterRedirectFits ==
    ASSUME McpInv, NEW a \in Answers, NEW s \in Surfaces, AfterRedirect(a, s)
    PROVE  CallFits(call') /\ BindingFits'
<1>1. /\ CallFits(call) /\ BindingFits /\ call.stage = "after_redirect"
      /\ call.at[1] \in ToSet(Bases)
  BY DEF McpInv, CallFits, AfterRedirect
<1>2. CASE a = "ok"
  BY <1>1, <1>2, OkFits DEF AfterRedirect
<1>3. CASE a \in {"none", "redirect"}
  BY <1>1, <1>3, FailureFits DEF AfterRedirect
<1>4. CASE a = "unauthorized"
  BY <1>1, <1>4, StageFits DEF AfterRedirect
<1>5. CASE a \notin {"ok", "none", "redirect", "unauthorized"}
  <2>1. Classified(a)
    BY <1>5 DEF AfterRedirect
  <2> QED
    BY <1>1, <2>1, ClassifiedFits
<1> QED
  BY <1>2, <1>3, <1>4, <1>5

LEMMA AfterRefusalFits ==
    ASSUME McpInv, NEW a \in Answers, NEW s \in Surfaces, AfterRefusal(a, s)
    PROVE  CallFits(call') /\ BindingFits'
<1>1. /\ CallFits(call) /\ BindingFits /\ call.stage = "after_refusal"
      /\ call.at[1] \in ToSet(Bases) /\ a # ""
  BY DEF McpInv, CallFits, AfterRefusal, Answers
<1>2. CASE a = "ok" /\ ~Posts(call.kind) /\ SurfaceIsEmpty(s)
  BY <1>1, <1>2, SearchFits, SucceededFits DEF AfterRefusal
<1>3. CASE a = "ok" /\ (Posts(call.kind) \/ ~SurfaceIsEmpty(s))
  BY <1>1, <1>3, OkFits DEF AfterRefusal
<1>4. CASE a # "ok"
  <2>1. \E r \in {"unauthorized", "redirected", a} : ReturnFailure(r)
    BY <1>4 DEF AfterRefusal
  <2> QED
    BY <1>1, <2>1, FailureFits
<1> QED
  BY <1>2, <1>3, <1>4

LEMMA McpStart == McpInit => McpInv
<1> SUFFICES ASSUME McpInit PROVE McpInv
  OBVIOUS
<1>1. /\ call.kind = "read" /\ call.stage = "idle" /\ call.nested = FALSE
      /\ call.todo = <<>> /\ IsCall(call)
  BY DEF McpInit, Idle, IsCall, CallFields
<1>2. CallFits(call)
  BY <1>1, EmptySeq DEF CallFits, Kinds
<1> QED
  BY <1>2, BasesAssumption DEF McpInit, McpInv, BindingFits

LEMMA StartFits ==
    ASSUME McpInv, NEW kind \in Kinds, NEW differs \in BOOLEAN, StartCall(kind, differs)
    PROVE  McpInv'
<1>1. PICK bases \in Seq(ToSet(Bases)) :
          /\ bases # <<>>
          /\ call' = [Idle EXCEPT !.kind = kind, !.stage = "send",
                                  !.at = Head(Attempts(bases)), !.todo = Tail(Attempts(bases))]
  <2>1. /\ Bases \in Seq(ToSet(Bases)) /\ Bases # <<>>
        /\ Reordered(FALSE) \in Seq(ToSet(Bases)) /\ Reordered(FALSE) # <<>>
    <3>1. Bases \in Seq(ToSet(Bases)) /\ Len(Bases) > 0
      BY BasesAssumption
    <3>2. Bases # <<>>
      BY <3>1, EmptySeq
    <3> QED
      BY <3>1, <3>2, ReorderedIsOfBases DEF McpInv
  <2>2. CASE IsPlanner(kind)
    BY <2>1, <2>2 DEF StartCall
  <2>3. CASE ~IsPlanner(kind)
    BY <2>1, <2>3 DEF StartCall
  <2> QED
    BY <2>2, <2>3
<1>2. /\ call'.kind = kind /\ call'.stage = "send" /\ call'.nested = FALSE
      /\ call'.at = Head(Attempts(bases)) /\ call'.todo = Tail(Attempts(bases))
      /\ IsCall(call')
  BY <1>1 DEF Idle, IsCall, CallFields
<1>3. Head(Attempts(bases)) \in Tries /\ Tail(Attempts(bases)) \in Seq(Tries)
  BY <1>1, AttemptsAreTries, HeadTailProperties
<1>4. 1 \in DOMAIN call'.at /\ call'.at[1] \in ToSet(Bases)
  BY <1>2, <1>3, TryHasBase
<1>5. CallFits(call')
  BY <1>2, <1>3, <1>4 DEF CallFits
<1> QED
  BY <1>5, BasesAssumption DEF StartCall, McpInv, BindingFits

LEMMA McpStep == McpInv /\ [McpNext]_mcpVars => McpInv'
<1> SUFFICES ASSUME McpInv, [McpNext]_mcpVars PROVE McpInv'
  OBVIOUS
<1>1. ASSUME NEW a \in Answers, NEW s \in Surfaces,
             Send(a, s) \/ Reissue(a, s) \/ AfterRedirect(a, s) \/ AfterRefusal(a, s)
      PROVE  McpInv'
  <2>1. applied' \in 0..2 /\ calls' \in 0..MaxCalls
    BY <1>1, ExchangeFits DEF Send, Reissue, AfterRedirect, AfterRefusal
  <2>2. CallFits(call') /\ BindingFits'
    BY <1>1, SendFits, ReissueFits, AfterRedirectFits, AfterRefusalFits
  <2> QED
    BY <2>1, <2>2 DEF McpInv
<1>2. CASE UNCHANGED mcpVars
  BY <1>2 DEF mcpVars, McpInv, CallFits, BindingFits
<1> QED
  BY <1>1, <1>2, StartFits DEF McpNext, Exchange

(* The types of a call and of the binding, for any sequence of bases: a    *)
(* binding is to a base, and an answer says something.                     *)
LEMMA McpTypes == McpInv => McpTypeOK
BY DEF McpInv, McpTypeOK, BindingFits, CallFits

-----------------------------------------------------------------------------
(* The trail of a run.  First its script, commit by commit.                *)
(* A script s whose run ends with a status.                                *)
IsScript(s, end) ==
    /\ Len(s) = 22
    /\ s[1] = Row(0, "CREATED")    /\ s[2] = Event(0, "CREATED")
    /\ s[3] = Row(0, "RUNNING")    /\ s[4] = Event(0, "RUNNING")
    /\ s[5] = Row(1, "CREATED")    /\ s[6] = Event(1, "CREATED")
    /\ s[7] = Row(1, "RUNNING")    /\ s[8] = Event(1, "RUNNING")
    /\ s[9] = finalize(1)[1]       /\ s[10] = finalize(1)[2]
    /\ s[11] = Row(1, "COMPLETED") /\ s[12] = Event(1, "COMPLETED")
    /\ s[13] = Row(2, "CREATED")   /\ s[14] = Event(2, "CREATED")
    /\ s[15] = Row(2, "RUNNING")   /\ s[16] = Event(2, "RUNNING")
    /\ s[17] = finalize(2)[1]      /\ s[18] = finalize(2)[2]
    /\ s[19] = Row(2, end)         /\ s[20] = Event(2, end)
    /\ s[21] = Row(0, end)         /\ s[22] = Event(0, end)

(* How a run and its last step end.                                        *)
Ends(fails) == IF fails THEN "FAILED" ELSE "COMPLETED"

(* All commits.                                                            *)
Commits == [op : {"row", "event", "file", "log"}, of : {0} \union StepIds,
            status : {"", "CREATED", "RUNNING", "COMPLETED", "FAILED"}]

(* A sequence u that is s, of length m, followed by t, of length n.        *)
Spliced(u, s, m, t, n) ==
    /\ Len(u) = m + n
    /\ \A i \in 1..m : u[i] = s[i]
    /\ \A i \in 1..n : u[m + i] = t[i]

(* A concatenation is spliced of its parts.                                *)
LEMMA Joined ==
    ASSUME NEW C, NEW s \in Seq(C), NEW t \in Seq(C), NEW m \in Nat, NEW n \in Nat,
           Len(s) = m, Len(t) = n
    PROVE  s \o t \in Seq(C) /\ Spliced(s \o t, s, m, t, n)
<1>1. s \o t \in Seq(C) /\ Len(s \o t) = m + n
  OBVIOUS
<1>2. \A i \in 1..m : (s \o t)[i] = s[i]
  OBVIOUS
<1>3. \A i \in 1..n : (s \o t)[m + i] = t[i]
  OBVIOUS
<1> QED
  BY <1>1, <1>2, <1>3 DEF Spliced

(* The two commits of a change.                                            *)
LEMMA ChangesAre ==
    ASSUME NEW of \in {0} \union StepIds,
           NEW status \in {"CREATED", "RUNNING", "COMPLETED", "FAILED"}
    PROVE  /\ Changes(of, status) \in Seq(Commits) /\ Len(Changes(of, status)) = 2
           /\ Changes(of, status)[1] = Row(of, status)
           /\ Changes(of, status)[2] = Event(of, status)
<1>1. Row(of, status) \in Commits /\ Event(of, status) \in Commits
  BY DEF Row, Event, Commits
<1> QED
  BY <1>1 DEF Changes

(* The eight commits of a step, of which one is a file.                    *)
LEMMA StepScriptIs ==
    ASSUME NEW s \in StepIds, NEW status \in {"COMPLETED", "FAILED"}
    PROVE  /\ StepScript(s, status) \in Seq(Commits) /\ Len(StepScript(s, status)) = 8
           /\ StepScript(s, status)[1] = Row(s, "CREATED")
           /\ StepScript(s, status)[2] = Event(s, "CREATED")
           /\ StepScript(s, status)[3] = Row(s, "RUNNING")
           /\ StepScript(s, status)[4] = Event(s, "RUNNING")
           /\ StepScript(s, status)[5] = finalize(s)[1]
           /\ StepScript(s, status)[6] = finalize(s)[2]
           /\ StepScript(s, status)[7] = Row(s, status)
           /\ StepScript(s, status)[8] = Event(s, status)
<1>1. PICK a : a = Changes(s, "CREATED") /\ a \in Seq(Commits) /\ Len(a) = 2
               /\ a[1] = Row(s, "CREATED") /\ a[2] = Event(s, "CREATED")
  BY ChangesAre
<1>2. PICK b : b = Changes(s, "RUNNING") /\ b \in Seq(Commits) /\ Len(b) = 2
               /\ b[1] = Row(s, "RUNNING") /\ b[2] = Event(s, "RUNNING")
  BY ChangesAre
<1>3. finalize(s) \in Seq(Commits) /\ Len(finalize(s)) = 2
  BY DEF finalize, Commits
<1>4. PICK f : f = finalize(s) /\ f \in Seq(Commits) /\ Len(f) = 2
  BY <1>3
<1>5. PICK c : c = Changes(s, status) /\ c \in Seq(Commits) /\ Len(c) = 2
               /\ c[1] = Row(s, status) /\ c[2] = Event(s, status)
  BY ChangesAre
<1>6. StepScript(s, status) = a \o b \o f \o c
  BY <1>1, <1>2, <1>4, <1>5 DEF StepScript
<1> DEFINE x == a \o b
<1>7. a \in Seq(Commits) /\ b \in Seq(Commits) /\ Len(a) = 2 /\ Len(b) = 2
  BY <1>1, <1>2
<1>8. /\ x \in Seq(Commits) /\ Len(x) = 4
       /\ Spliced(x, a, 2, b, 2)
  <2>1. x \in Seq(Commits) /\ Spliced(x, a, 2, b, 2)
    BY <1>7, Joined
  <2>2. Len(x) = 4
    BY <2>1 DEF Spliced
  <2> QED
    BY <2>1, <2>2
<1> HIDE DEF x
<1> DEFINE y == x \o f
<1>9. x \in Seq(Commits) /\ f \in Seq(Commits) /\ Len(x) = 4 /\ Len(f) = 2
  BY <1>4, <1>8
<1>10. /\ y \in Seq(Commits) /\ Len(y) = 6
       /\ Spliced(y, x, 4, f, 2)
  <2>1. y \in Seq(Commits) /\ Spliced(y, x, 4, f, 2)
    BY <1>9, Joined
  <2>2. Len(y) = 6
    BY <2>1 DEF Spliced
  <2> QED
    BY <2>1, <2>2
<1> HIDE DEF y
<1> DEFINE z == y \o c
<1>11. y \in Seq(Commits) /\ c \in Seq(Commits) /\ Len(y) = 6 /\ Len(c) = 2
  BY <1>5, <1>10
<1>12. /\ z \in Seq(Commits) /\ Len(z) = 8
       /\ Spliced(z, y, 6, c, 2)
  <2>1. z \in Seq(Commits) /\ Spliced(z, y, 6, c, 2)
    BY <1>11, Joined
  <2>2. Len(z) = 8
    BY <2>1 DEF Spliced
  <2> QED
    BY <2>1, <2>2
<1> HIDE DEF z
<1>13. z[1] = a[1] /\ z[2] = a[2] /\ z[3] = b[1] /\ z[4] = b[2]
  BY <1>8, <1>10, <1>12 DEF Spliced
<1>14. z[5] = f[1] /\ z[6] = f[2] /\ z[7] = c[1] /\ z[8] = c[2]
  BY <1>10, <1>12 DEF Spliced
<1>15. StepScript(s, status) = z
  BY <1>6 DEF x, y, z
<1> QED
  BY <1>1, <1>2, <1>4, <1>5, <1>12, <1>13, <1>14, <1>15

(* The twenty-two commits of a run.                                        *)
LEMMA ScriptIs ==
    ASSUME NEW fails \in BOOLEAN
    PROVE  IsScript(execute_simple_run(fails), Ends(fails))
<1>1. PICK end \in {"COMPLETED", "FAILED"} : end = Ends(fails)
  BY DEF Ends
<1>2. PICK a : a = Changes(0, "CREATED") /\ a \in Seq(Commits) /\ Len(a) = 2
               /\ a[1] = Row(0, "CREATED") /\ a[2] = Event(0, "CREATED")
  BY ChangesAre
<1>3. PICK b : b = Changes(0, "RUNNING") /\ b \in Seq(Commits) /\ Len(b) = 2
               /\ b[1] = Row(0, "RUNNING") /\ b[2] = Event(0, "RUNNING")
  BY ChangesAre
<1>4. PICK c : /\ c = StepScript(1, "COMPLETED") /\ c \in Seq(Commits) /\ Len(c) = 8
               /\ c[1] = Row(1, "CREATED") /\ c[2] = Event(1, "CREATED")
               /\ c[3] = Row(1, "RUNNING") /\ c[4] = Event(1, "RUNNING")
               /\ c[5] = finalize(1)[1] /\ c[6] = finalize(1)[2]
               /\ c[7] = Row(1, "COMPLETED") /\ c[8] = Event(1, "COMPLETED")
  BY StepScriptIs DEF StepIds
<1>5. PICK d : /\ d = StepScript(2, end) /\ d \in Seq(Commits) /\ Len(d) = 8
               /\ d[1] = Row(2, "CREATED") /\ d[2] = Event(2, "CREATED")
               /\ d[3] = Row(2, "RUNNING") /\ d[4] = Event(2, "RUNNING")
               /\ d[5] = finalize(2)[1] /\ d[6] = finalize(2)[2]
               /\ d[7] = Row(2, end) /\ d[8] = Event(2, end)
  BY StepScriptIs DEF StepIds
<1>6. PICK e : e = Changes(0, end) /\ e \in Seq(Commits) /\ Len(e) = 2
               /\ e[1] = Row(0, end) /\ e[2] = Event(0, end)
  BY ChangesAre
<1>7. execute_simple_run(fails) = a \o b \o c \o d \o e
  BY <1>1, <1>2, <1>3, <1>4, <1>5, <1>6 DEF execute_simple_run, Ends
<1> DEFINE x == a \o b
<1>8. a \in Seq(Commits) /\ b \in Seq(Commits) /\ Len(a) = 2 /\ Len(b) = 2
  BY <1>2, <1>3
<1>9. /\ x \in Seq(Commits) /\ Len(x) = 4
       /\ Spliced(x, a, 2, b, 2)
  <2>1. x \in Seq(Commits) /\ Spliced(x, a, 2, b, 2)
    BY <1>8, Joined
  <2>2. Len(x) = 4
    BY <2>1 DEF Spliced
  <2> QED
    BY <2>1, <2>2
<1> HIDE DEF x
<1> DEFINE y == x \o c
<1>10. x \in Seq(Commits) /\ c \in Seq(Commits) /\ Len(x) = 4 /\ Len(c) = 8
  BY <1>4, <1>9
<1>11. /\ y \in Seq(Commits) /\ Len(y) = 12
       /\ Spliced(y, x, 4, c, 8)
  <2>1. y \in Seq(Commits) /\ Spliced(y, x, 4, c, 8)
    BY <1>10, Joined
  <2>2. Len(y) = 12
    BY <2>1 DEF Spliced
  <2> QED
    BY <2>1, <2>2
<1> HIDE DEF y
<1> DEFINE z == y \o d
<1>12. y \in Seq(Commits) /\ d \in Seq(Commits) /\ Len(y) = 12 /\ Len(d) = 8
  BY <1>5, <1>11
<1>13. /\ z \in Seq(Commits) /\ Len(z) = 20
       /\ Spliced(z, y, 12, d, 8)
  <2>1. z \in Seq(Commits) /\ Spliced(z, y, 12, d, 8)
    BY <1>12, Joined
  <2>2. Len(z) = 20
    BY <2>1 DEF Spliced
  <2> QED
    BY <2>1, <2>2
<1> HIDE DEF z
<1> DEFINE w == z \o e
<1>14. z \in Seq(Commits) /\ e \in Seq(Commits) /\ Len(z) = 20 /\ Len(e) = 2
  BY <1>6, <1>13
<1>15. /\ w \in Seq(Commits) /\ Len(w) = 22
       /\ Spliced(w, z, 20, e, 2)
  <2>1. w \in Seq(Commits) /\ Spliced(w, z, 20, e, 2)
    BY <1>14, Joined
  <2>2. Len(w) = 22
    BY <2>1 DEF Spliced
  <2> QED
    BY <2>1, <2>2
<1> HIDE DEF w
<1>16. \A i \in 1..20 : w[i] = z[i]
  BY <1>15 DEF Spliced
<1>17. \A i \in 1..12 : w[i] = y[i]
  <2>1. \A i \in 1..12 : z[i] = y[i]
    BY <1>13 DEF Spliced
  <2> QED
    BY <1>16, <2>1
<1>18. \A i \in 1..4 : w[i] = x[i]
  BY <1>11, <1>17 DEF Spliced
<1>19. w[1] = a[1] /\ w[2] = a[2] /\ w[3] = b[1] /\ w[4] = b[2]
  BY <1>9, <1>18 DEF Spliced
<1>20. /\ w[5] = c[1] /\ w[6] = c[2] /\ w[7] = c[3] /\ w[8] = c[4]
       /\ w[9] = c[5] /\ w[10] = c[6] /\ w[11] = c[7] /\ w[12] = c[8]
  <2>1. \A i \in 1..8 : y[4 + i] = c[i]
    BY <1>11 DEF Spliced
  <2>2. /\ y[4 + 1] = c[1] /\ y[4 + 2] = c[2] /\ y[4 + 3] = c[3] /\ y[4 + 4] = c[4]
        /\ y[4 + 5] = c[5] /\ y[4 + 6] = c[6] /\ y[4 + 7] = c[7] /\ y[4 + 8] = c[8]
    BY <2>1
  <2> QED
    BY <1>17, <2>2
<1>21. /\ w[13] = d[1] /\ w[14] = d[2] /\ w[15] = d[3] /\ w[16] = d[4]
       /\ w[17] = d[5] /\ w[18] = d[6] /\ w[19] = d[7] /\ w[20] = d[8]
  <2>1. \A i \in 1..8 : z[12 + i] = d[i]
    BY <1>13 DEF Spliced
  <2>2. /\ z[12 + 1] = d[1] /\ z[12 + 2] = d[2] /\ z[12 + 3] = d[3] /\ z[12 + 4] = d[4]
        /\ z[12 + 5] = d[5] /\ z[12 + 6] = d[6] /\ z[12 + 7] = d[7] /\ z[12 + 8] = d[8]
    BY <2>1
  <2> QED
    BY <1>16, <2>2
<1>22. w[21] = e[1] /\ w[22] = e[2]
  BY <1>15 DEF Spliced
<1>23. IsScript(w, end)
  BY <1>2, <1>3, <1>4, <1>5, <1>6, <1>15, <1>19, <1>20, <1>21, <1>22 DEF IsScript
<1>24. execute_simple_run(fails) = w
  BY <1>7 DEF x, y, z, w
<1> QED
  BY <1>1, <1>23, <1>24
-----------------------------------------------------------------------------
(* The trails, by type.                                                    *)
TrailSet ==
    [stage : {"none", "commits", "storing", "answered"}, pc : 1..22,
     fails : BOOLEAN,
     status : [{0} \union StepIds ->
                  {"none", "CREATED", "RUNNING", "COMPLETED", "FAILED", "CANCELLED"}],
     events : SUBSET (({0} \union StepIds)
                      \X {"CREATED", "RUNNING", "COMPLETED", "FAILED"}),
     files : [StepIds -> {"none", "partial", "whole"}], logs : SUBSET StepIds]

(* What the place in the script says of step s, ...                        *)
StepStands(t, s) ==
    /\ t.pc > 8*s - 3 <=> Rank(t.status[s]) >= 1
    /\ t.pc > 8*s - 1 => Rank(t.status[s]) >= 2
    /\ t.pc > 8*s + 1 => t.files[s] = "whole"
    /\ s \in t.logs <=> t.pc > 8*s + 2
    /\ t.pc > 8*s + 3 <=> t.status[s] \in {"COMPLETED", "FAILED", "CANCELLED"}
    /\ t.pc > 8*s + 3 => t.status[s] = IF s = 1 THEN "COMPLETED" ELSE Ends(t.fails)

(* ... of the run, which may have been cancelled, ...                      *)
RunStands(t) ==
    /\ t.pc > 1 <=> Rank(t.status[0]) >= 1
    /\ t.pc > 3 => Rank(t.status[0]) >= 2
    /\ t.pc > 21 <=> t.status[0] \in {"COMPLETED", "FAILED"}
    /\ t.pc > 21 => t.status[0] = Ends(t.fails)

(* ... and the rows of the events.                                         *)
EventsFollow(t) ==
    \A e \in t.events :
        /\ Rank(e[2]) <= Rank(t.status[e[1]])
        /\ Rank(e[2]) = 3 => t.status[e[1]] = e[2]

(* All that holds of one trail.                                            *)
TrailStands(t) ==
    /\ t \in TrailSet
    /\ t.stage = "none" => t.pc = 1
    /\ t.stage = "storing" => t.pc \in {9, 17}
    /\ \A s \in StepIds : StepStands(t, s)
    /\ RunStands(t) /\ EventsFollow(t)

(* An upload has its file before its row, and its row before its event.    *)
UploadStands ==
    /\ upload \in [stage : {"none", "storing", "row", "event", "answered"},
                   file : {"none", "partial", "whole"}, row : BOOLEAN, event : BOOLEAN]
    /\ upload.stage \in {"none", "storing", "row"} => ~upload.row
    /\ upload.stage = "event" => upload.row
    /\ upload.stage \in {"row", "event"} \/ upload.row => upload.file = "whole"
    /\ upload.event => upload.row

(* The invariant of the trails and the upload.                             *)
TrailInv ==
    /\ trails \in [Runs -> TrailSet] /\ loop \in Runs \union {NoRun}
    /\ \A r \in Runs : TrailStands(trails[r])
    /\ UploadStands

-----------------------------------------------------------------------------
(* The ranks of the statuses.                                              *)
LEMMA Ranks ==
    /\ Rank("none") = 0 /\ Rank("CREATED") = 1 /\ Rank("RUNNING") = 2
    /\ Rank("COMPLETED") = 3 /\ Rank("FAILED") = 3 /\ Rank("CANCELLED") = 3
BY DEF Rank

(* The rows that the script writes, and the events after them.             *)
Writes(pc, of, status, fails) ==
    \/ pc = 1 /\ of = 0 /\ status = "CREATED"
    \/ pc = 3 /\ of = 0 /\ status = "RUNNING"
    \/ pc = 5 /\ of = 1 /\ status = "CREATED"
    \/ pc = 7 /\ of = 1 /\ status = "RUNNING"
    \/ pc = 11 /\ of = 1 /\ status = "COMPLETED"
    \/ pc = 13 /\ of = 2 /\ status = "CREATED"
    \/ pc = 15 /\ of = 2 /\ status = "RUNNING"
    \/ pc = 19 /\ of = 2 /\ status = Ends(fails)
    \/ pc = 21 /\ of = 0 /\ status = Ends(fails)

(* The fields that a commit does not touch, and the place it goes on to.   *)
GoesOn(t, u) ==
    /\ u \in TrailSet /\ u.fails = t.fails
    /\ IF t.pc = 22 THEN u.pc = 22 /\ u.stage = "answered"
       ELSE u.pc = t.pc + 1 /\ u.stage = "commits"

(* Writing a row.  Its earlier events have lower ranks.                    *)
LEMMA RowKeeps ==
    ASSUME NEW t, TrailStands(t), NEW u, GoesOn(t, u),
           NEW of, NEW status, Writes(t.pc, of, status, t.fails),
           u.status = [t.status EXCEPT ![of] = status],
           u.events = t.events, u.files = t.files, u.logs = t.logs
    PROVE  TrailStands(u)
<1>1. /\ t \in TrailSet /\ u \in TrailSet /\ t.pc \in 1..21 /\ u.pc = t.pc + 1
      /\ u.fails = t.fails /\ u.stage = "commits"
  BY DEF TrailStands, TrailSet, GoesOn, Writes
<1>2. of \in {0} \union StepIds /\ \A w \in {0} \union StepIds :
          u.status[w] = IF w = of THEN status ELSE t.status[w]
  BY <1>1 DEF TrailSet, Writes, StepIds
<1>3. Ends(t.fails) \in {"COMPLETED", "FAILED"}
  BY DEF Ends
<1>4. StepStands(t, 1) /\ StepStands(t, 2) /\ RunStands(t) /\ EventsFollow(t)
  BY DEF TrailStands, StepIds
<1>5. StepStands(u, 1)
  BY <1>1, <1>2, <1>3, <1>4, Ranks DEF StepStands, Writes, StepIds
<1>6. StepStands(u, 2)
  BY <1>1, <1>2, <1>3, <1>4, Ranks DEF StepStands, Writes, StepIds
<1>7. RunStands(u)
  BY <1>1, <1>2, <1>3, <1>4, Ranks DEF RunStands, Writes, StepIds
<1>8. EventsFollow(u)
  <2>1. SUFFICES ASSUME NEW e \in t.events
                 PROVE  /\ Rank(e[2]) <= Rank(u.status[e[1]])
                        /\ Rank(e[2]) = 3 => u.status[e[1]] = e[2]
    BY DEF EventsFollow
  <2>2. e[1] \in {0} \union StepIds /\ e[2] \in {"CREATED", "RUNNING", "COMPLETED", "FAILED"}
    BY <1>1 DEF TrailSet
  <2>3. Rank(e[2]) <= Rank(t.status[e[1]]) /\ (Rank(e[2]) = 3 => t.status[e[1]] = e[2])
    BY <1>4 DEF EventsFollow
  <2>4. CASE e[1] # of
    BY <1>2, <2>2, <2>3, <2>4
  <2>5. CASE e[1] = of
    <3>1. Rank(e[2]) # 3
      <4>1. SUFFICES ASSUME t.status[of] \in {"COMPLETED", "FAILED"} PROVE FALSE
        BY <2>2, <2>3, <2>5, Ranks
      <4>2. CASE of = 0
        BY <1>1, <1>4, <4>1, <4>2 DEF RunStands
      <4>3. CASE of \in {1, 2}
        BY <1>1, <1>3, <1>4, <4>1, <4>3 DEF StepStands, Writes
      <4> QED
        BY <1>2, <4>2, <4>3 DEF StepIds
    <3>2. u.status[of] = status
      BY <1>2
    <3>3. e[2] \in {"CREATED", "RUNNING"}
      BY <2>2, <3>1, Ranks
    <3>4. CASE status = "CREATED"
      <4>1. Rank(t.status[of]) = 0
        <5>1. t.status[of] \in {"none", "CREATED", "RUNNING", "COMPLETED", "FAILED", "CANCELLED"}
          BY <1>1, <1>2 DEF TrailSet
        <5> QED
          BY <1>1, <1>3, <1>4, <3>4, <5>1, Ranks DEF Writes, StepStands, RunStands
      <4> QED
        BY <2>2, <2>3, <2>5, <4>1, Ranks
    <3>5. CASE status # "CREATED"
      <4>1. Rank(status) \in {2, 3}
        BY <1>3, <3>5, Ranks DEF Writes
      <4> QED
        BY <2>5, <3>1, <3>2, <3>3, <4>1, Ranks
    <3> QED
      BY <3>4, <3>5
  <2> QED
    BY <2>4, <2>5
<1> QED
  BY <1>1, <1>5, <1>6, <1>7, <1>8 DEF TrailStands, StepIds

(* Writing an event, which follows its row.                                *)
LEMMA EventKeeps ==
    ASSUME NEW t, TrailStands(t), NEW u, GoesOn(t, u),
           NEW of, NEW status, Writes(t.pc - 1, of, status, t.fails),
           u.events = t.events \union {<<of, status>>},
           u.status = t.status, u.files = t.files, u.logs = t.logs
    PROVE  TrailStands(u)
<1>1. /\ t \in TrailSet /\ u \in TrailSet /\ t.pc \in 1..22 /\ u.fails = t.fails
      /\ IF t.pc = 22 THEN u.pc = 22 /\ u.stage = "answered"
         ELSE u.pc = t.pc + 1 /\ u.stage = "commits"
  BY DEF TrailStands, TrailSet, GoesOn
<1>2. t.pc \in {2, 4, 6, 8, 12, 14, 16, 20, 22}
  BY <1>1 DEF Writes
<1>3. Ends(t.fails) \in {"COMPLETED", "FAILED"}
  BY DEF Ends
<1>4. StepStands(t, 1) /\ StepStands(t, 2) /\ RunStands(t) /\ EventsFollow(t)
  BY DEF TrailStands, StepIds
<1>5. StepStands(u, 1)
  BY <1>1, <1>2, <1>4 DEF StepStands
<1>6. StepStands(u, 2)
  BY <1>1, <1>2, <1>4 DEF StepStands
<1>7. RunStands(u)
  BY <1>1, <1>2, <1>4 DEF RunStands
<1>8. EventsFollow(u)
  <2>1. Rank(status) <= Rank(t.status[of]) /\ (Rank(status) = 3 => t.status[of] = status)
    <3>1. t.status \in [{0} \union StepIds ->
                  {"none", "CREATED", "RUNNING", "COMPLETED", "FAILED", "CANCELLED"}]
      BY <1>1 DEF TrailSet
    <3> QED
      BY <1>1, <1>3, <1>4, <3>1, Ranks DEF Writes, StepStands, RunStands, StepIds
  <2>2. \A e \in u.events : e \in t.events \/ (e[1] = of /\ e[2] = status)
    OBVIOUS
  <2> QED
    BY <1>4, <2>1, <2>2 DEF EventsFollow
<1> QED
  BY <1>1, <1>2, <1>5, <1>6, <1>7, <1>8 DEF TrailStands, StepIds

(* Inserting the row of a log, which follows its file.                     *)
LEMMA LogKeeps ==
    ASSUME NEW t, TrailStands(t), NEW u, GoesOn(t, u),
           NEW s \in StepIds, t.pc = 8*s + 2, u.logs = t.logs \union {s},
           u.events = t.events, u.status = t.status, u.files = t.files
    PROVE  TrailStands(u)
<1>1. /\ u \in TrailSet /\ t.pc \in {10, 18} /\ u.fails = t.fails
      /\ u.pc = t.pc + 1 /\ u.stage = "commits"
  BY DEF GoesOn, StepIds
<1>2. StepStands(t, 1) /\ StepStands(t, 2) /\ RunStands(t) /\ EventsFollow(t)
  BY DEF TrailStands, StepIds
<1>3. StepStands(u, 1) /\ StepStands(u, 2)
  BY <1>1, <1>2 DEF StepStands, StepIds
<1>4. RunStands(u) /\ EventsFollow(u)
  BY <1>1, <1>2 DEF RunStands, EventsFollow
<1> QED
  BY <1>1, <1>3, <1>4 DEF TrailStands, StepIds

(* A file that is being stored, and one that has been.                     *)
LEMMA FileKeeps ==
    ASSUME NEW t, TrailStands(t), NEW u \in TrailSet,
           NEW s \in StepIds, t.pc = 8*s + 1, u.fails = t.fails,
           \/ u.stage = "storing" /\ u.pc = t.pc
           \/ u.stage = "commits" /\ u.pc = t.pc + 1 /\ u.files[s] = "whole",
           \A w \in StepIds : w # s => u.files[w] = t.files[w],
           u.events = t.events, u.status = t.status, u.logs = t.logs
    PROVE  TrailStands(u)
<1>1. t.pc \in {9, 17} /\ (s = 1 <=> t.pc = 9) /\ (s = 2 <=> t.pc = 17)
  BY DEF StepIds
<1>2. StepStands(t, 1) /\ StepStands(t, 2) /\ RunStands(t) /\ EventsFollow(t)
  BY DEF TrailStands, StepIds
<1>3. StepStands(u, 1)
  BY <1>1, <1>2 DEF StepStands, StepIds
<1>4. StepStands(u, 2)
  BY <1>1, <1>2 DEF StepStands, StepIds
<1>5. RunStands(u) /\ EventsFollow(u)
  BY <1>1, <1>2 DEF RunStands, EventsFollow
<1> QED
  BY <1>1, <1>3, <1>4, <1>5 DEF TrailStands, StepIds

(* A request that ends early, or with its process, leaves all as it is.    *)
LEMMA EndKeeps ==
    ASSUME NEW t, TrailStands(t)
    PROVE  TrailStands([t EXCEPT !.stage = "answered"])
<1>1. PICK u : u = [t EXCEPT !.stage = "answered"]
  OBVIOUS
<1>2. /\ u \in TrailSet /\ u.stage = "answered" /\ u.pc = t.pc /\ u.fails = t.fails
      /\ u.events = t.events /\ u.status = t.status /\ u.logs = t.logs /\ u.files = t.files
  BY <1>1 DEF TrailStands, TrailSet
<1>3. StepStands(u, 1) /\ StepStands(u, 2) /\ RunStands(u) /\ EventsFollow(u)
  BY <1>2 DEF TrailStands, StepStands, RunStands, EventsFollow, StepIds
<1>4. TrailStands(u)
  BY <1>2, <1>3 DEF TrailStands, StepIds
<1> QED
  BY <1>1, <1>4

(* A cancellation: no event of an end can be there.                        *)
LEMMA CancelKeeps ==
    ASSUME NEW t, TrailStands(t), t.status[0] \in {"CREATED", "RUNNING"}
    PROVE  TrailStands([t EXCEPT !.status[0] = "CANCELLED"])
<1>1. PICK u : u = [t EXCEPT !.status[0] = "CANCELLED"]
  OBVIOUS
<1>2. t \in TrailSet /\ t.pc \in 1..22
  BY DEF TrailStands, TrailSet
<1>3. /\ u \in TrailSet /\ u.stage = t.stage /\ u.pc = t.pc /\ u.fails = t.fails
      /\ u.events = t.events /\ u.logs = t.logs /\ u.files = t.files
      /\ \A w \in {0} \union StepIds :
             u.status[w] = IF w = 0 THEN "CANCELLED" ELSE t.status[w]
  BY <1>1, <1>2 DEF TrailSet
<1>4. StepStands(t, 1) /\ StepStands(t, 2) /\ RunStands(t) /\ EventsFollow(t)
  BY DEF TrailStands, StepIds
<1>5. StepStands(u, 1) /\ StepStands(u, 2)
  BY <1>3, <1>4 DEF StepStands, StepIds
<1>6. RunStands(u)
  BY <1>2, <1>3, <1>4, Ranks DEF RunStands
<1>7. EventsFollow(u)
  <2>1. SUFFICES ASSUME NEW e \in t.events
                 PROVE  /\ Rank(e[2]) <= Rank(u.status[e[1]])
                        /\ Rank(e[2]) = 3 => u.status[e[1]] = e[2]
    BY <1>3 DEF EventsFollow
  <2>2. e[1] \in {0} \union StepIds /\ e[2] \in {"CREATED", "RUNNING", "COMPLETED", "FAILED"}
    BY <1>2 DEF TrailSet
  <2>3. Rank(e[2]) <= Rank(t.status[e[1]]) /\ (Rank(e[2]) = 3 => t.status[e[1]] = e[2])
    BY <1>4 DEF EventsFollow
  <2>4. CASE e[1] = 0
    BY <1>3, <2>2, <2>3, <2>4, Ranks
  <2>5. CASE e[1] # 0
    BY <1>3, <2>2, <2>3, <2>5
  <2> QED
    BY <2>4, <2>5
<1>8. TrailStands(u)
  BY <1>2, <1>3, <1>5, <1>6, <1>7 DEF TrailStands, StepIds
<1> QED
  BY <1>1, <1>8

-----------------------------------------------------------------------------
(* The kinds of commits.                                                   *)
LEMMA CommitFields ==
    ASSUME NEW of, NEW status
    PROVE  /\ Row(of, status).op = "row" /\ Row(of, status).of = of
           /\ Row(of, status).status = status
           /\ Event(of, status).op = "event" /\ Event(of, status).of = of
           /\ Event(of, status).status = status
           /\ finalize(of)[1].op = "file" /\ finalize(of)[1].of = of
           /\ finalize(of)[2].op = "log" /\ finalize(of)[2].of = of
BY DEF Row, Event, finalize

(* What the script says of a place, by the kind of its commit.             *)
LEMMA Places ==
    ASSUME NEW t, TrailStands(t), NEW c, c = execute_simple_run(t.fails)[t.pc]
    PROVE  /\ c.op \in {"row", "event", "file", "log"}
           /\ c.op = "row" => Writes(t.pc, c.of, c.status, t.fails)
           /\ c.op = "event" => Writes(t.pc - 1, c.of, c.status, t.fails)
           /\ c.op \in {"file", "log"} => c.of \in StepIds
           /\ c.op = "file" => t.pc = 8*c.of + 1
           /\ c.op = "log" => t.pc = 8*c.of + 2
<1>1. t.pc \in 1..22 /\ t.fails \in BOOLEAN
  BY DEF TrailStands, TrailSet
<1>2. PICK end : end = Ends(t.fails)
  OBVIOUS
<1>3. IsScript(execute_simple_run(t.fails), end)
  BY <1>1, <1>2, ScriptIs
<1>4. CASE t.pc \in 1..4
  BY <1>3, <1>4, CommitFields DEF IsScript, Writes
<1>5. CASE t.pc \in 5..8 \union {11, 12}
  BY <1>3, <1>5, CommitFields DEF IsScript, Writes
<1>6. CASE t.pc \in {9, 10, 17, 18}
  BY <1>3, <1>6, CommitFields DEF IsScript, StepIds
<1>7. CASE t.pc \in 13..16
  BY <1>3, <1>7, CommitFields DEF IsScript, Writes
<1>8. CASE t.pc \in 19..22
  BY <1>2, <1>3, <1>8, CommitFields DEF IsScript, Writes
<1> QED
  BY <1>1, <1>4, <1>5, <1>6, <1>7, <1>8

(* A commit of a request keeps what its trail says.                        *)
LEMMA CommitKeeps ==
    ASSUME NEW t, TrailStands(t), t.stage = "commits",
           NEW c, c = execute_simple_run(t.fails)[t.pc], c.op # "file"
    PROVE  TrailStands(Advanced(Committed(t, c)))
<1>1. t \in TrailSet /\ Len(execute_simple_run(t.fails)) = 22
  BY ScriptIs DEF TrailStands, TrailSet, IsScript
<1>2. PICK d : d = Committed(t, c)
  OBVIOUS
<1>3. PICK u : u = Advanced(d)
  OBVIOUS
<1>4. ASSUME d \in TrailSet, d.stage = "commits", d.pc = t.pc, d.fails = t.fails
      PROVE  /\ GoesOn(t, u) /\ u.status = d.status /\ u.events = d.events
             /\ u.files = d.files /\ u.logs = d.logs
  <2>1. t.pc \in 1..22
    BY <1>1 DEF TrailSet
  <2>2. CASE t.pc = 22
    <3>1. u = [d EXCEPT !.stage = "answered"]
      BY <1>1, <1>3, <1>4, <2>2 DEF Advanced
    <3> QED
      BY <1>4, <2>2, <3>1 DEF GoesOn, TrailSet
  <2>3. CASE t.pc # 22
    <3>1. u = [d EXCEPT !.pc = @ + 1]
      BY <1>1, <1>3, <1>4, <2>3 DEF Advanced
    <3> QED
      BY <1>4, <2>1, <2>3, <3>1 DEF GoesOn, TrailSet
  <2> QED
    BY <2>2, <2>3
<1>5. CASE c.op = "row"
  <2>1. PICK of, status : of = c.of /\ status = c.status
    OBVIOUS
  <2>2. Writes(t.pc, of, status, t.fails)
    BY <1>5, <2>1, Places
  <2>3. d = [t EXCEPT !.status = [t.status EXCEPT ![of] = status]]
    BY <1>2, <1>5, <2>1 DEF Committed
  <2>4. of \in {0} \union StepIds /\ status \in {"CREATED", "RUNNING", "COMPLETED", "FAILED"}
    BY <2>2 DEF Writes, Ends, StepIds
  <2>5. /\ d \in TrailSet /\ d.stage = "commits" /\ d.pc = t.pc /\ d.fails = t.fails
        /\ d.status = [t.status EXCEPT ![of] = status]
        /\ d.events = t.events /\ d.files = t.files /\ d.logs = t.logs
    BY <1>1, <2>3, <2>4 DEF TrailSet
  <2> QED
    BY <1>2, <1>3, <1>4, <2>2, <2>5, RowKeeps
<1>6. CASE c.op = "event"
  <2>1. PICK of, status : of = c.of /\ status = c.status
    OBVIOUS
  <2>2. Writes(t.pc - 1, of, status, t.fails)
    BY <1>6, <2>1, Places
  <2>3. d = [t EXCEPT !.events = t.events \union {<<of, status>>}]
    BY <1>2, <1>6, <2>1 DEF Committed
  <2>4. of \in {0} \union StepIds /\ status \in {"CREATED", "RUNNING", "COMPLETED", "FAILED"}
    BY <2>2 DEF Writes, Ends, StepIds
  <2>5. /\ d \in TrailSet /\ d.stage = "commits" /\ d.pc = t.pc /\ d.fails = t.fails
        /\ d.events = t.events \union {<<of, status>>}
        /\ d.status = t.status /\ d.files = t.files /\ d.logs = t.logs
    BY <1>1, <2>3, <2>4 DEF TrailSet
  <2> QED
    BY <1>2, <1>3, <1>4, <2>2, <2>5, EventKeeps
<1>7. CASE c.op = "log"
  <2>1. PICK s : s = c.of
    OBVIOUS
  <2>2. s \in StepIds /\ t.pc = 8*s + 2
    BY <1>7, <2>1, Places
  <2>3. d = [t EXCEPT !.logs = t.logs \union {s}]
    BY <1>2, <1>7, <2>1 DEF Committed
  <2>4. /\ d \in TrailSet /\ d.stage = "commits" /\ d.pc = t.pc /\ d.fails = t.fails
        /\ d.logs = t.logs \union {s}
        /\ d.status = t.status /\ d.files = t.files /\ d.events = t.events
    BY <1>1, <2>2, <2>3 DEF TrailSet
  <2> QED
    BY <1>2, <1>3, <1>4, <2>2, <2>4, LogKeeps
<1> QED
  BY <1>5, <1>6, <1>7, Places

(* Only the upload's own steps touch it.                                   *)
LEMMA UploadKeeps ==
    ASSUME UploadStands, create_artifact PROVE UploadStands'
<1>1. PICK file \in {"none", "partial", "whole"}, row \in BOOLEAN, event \in BOOLEAN,
           stage \in {"none", "storing", "row", "event", "answered"} :
          upload = [stage |-> stage, file |-> file, row |-> row, event |-> event]
  BY DEF UploadStands
<1> QED
  BY <1>1 DEF UploadStands, create_artifact

-----------------------------------------------------------------------------
LEMMA TrailStart == TrailInit => TrailInv
<1> SUFFICES ASSUME TrailInit PROVE TrailInv
  OBVIOUS
<1>1. NoTrail \in TrailSet
  BY DEF NoTrail, TrailSet, StepIds
<1>2. /\ NoTrail.stage = "none" /\ NoTrail.pc = 1 /\ NoTrail.logs = {} /\ NoTrail.events = {}
      /\ \A w \in {0} \union StepIds : NoTrail.status[w] = "none"
  BY DEF NoTrail
<1>3. TrailStands(NoTrail)
  BY <1>1, <1>2, Ranks DEF TrailStands, StepStands, RunStands, EventsFollow, StepIds
<1>4. UploadStands
  BY DEF TrailInit, UploadStands, NoUpload
<1> QED
  BY <1>1, <1>3, <1>4 DEF TrailInit, TrailInv

LEMMA TrailStep == TrailInv /\ [TrailNext]_trailVars => TrailInv'
<1> SUFFICES ASSUME TrailInv, [TrailNext]_trailVars PROVE TrailInv'
  OBVIOUS
<1>1. ASSUME NEW r \in Runs, NEW u, TrailStands(u), trails' = [trails EXCEPT ![r] = u],
             loop' \in Runs \union {NoRun}, UNCHANGED upload
      PROVE  TrailInv'
  <2>1. u \in TrailSet
    BY <1>1 DEF TrailStands
  <2>2. trails' \in [Runs -> TrailSet] /\ \A q \in Runs : TrailStands(trails'[q])
    BY <1>1, <2>1 DEF TrailInv
  <2>3. UploadStands'
    BY <1>1 DEF TrailInv, UploadStands
  <2> QED
    BY <1>1, <2>2, <2>3 DEF TrailInv
<1>2. ASSUME NEW r \in Runs, NEW simulate_failure \in BOOLEAN,
             create_run(r, simulate_failure)
      PROVE  TrailInv'
  <2>1. PICK t : t = trails[r]
    OBVIOUS
  <2>2. t \in TrailSet /\ TrailStands(t) /\ t.stage = "none"
    BY <1>2, <2>1 DEF TrailInv, create_run
  <2>3. PICK u : u = [t EXCEPT !.stage = "commits", !.fails = simulate_failure]
    OBVIOUS
  <2>4. trails' = [trails EXCEPT ![r] = u] /\ loop' \in Runs \union {NoRun}
        /\ UNCHANGED upload
    BY <1>2, <2>1, <2>3 DEF create_run, TrailInv
  <2>5. /\ u \in TrailSet /\ u.stage = "commits" /\ u.pc = 1 /\ u.status = t.status
        /\ u.events = t.events /\ u.files = t.files /\ u.logs = t.logs /\ t.pc = 1
    BY <2>2, <2>3 DEF TrailSet, TrailStands
  <2>6. StepStands(u, 1) /\ StepStands(u, 2) /\ RunStands(u) /\ EventsFollow(u)
    BY <2>2, <2>5 DEF TrailStands, StepStands, RunStands, EventsFollow, StepIds
  <2>7. TrailStands(u)
    BY <2>5, <2>6 DEF TrailStands, StepIds
  <2> QED
    BY <1>1, <2>4, <2>7
<1>3. ASSUME NEW r \in Runs, Commit(r) PROVE TrailInv'
  <2>1. PICK t, c : t = trails[r] /\ c = execute_simple_run(t.fails)[t.pc]
    OBVIOUS
  <2>2. TrailStands(t) /\ t.stage = "commits" /\ c.op # "file" /\ UNCHANGED upload
    BY <1>3, <2>1 DEF TrailInv, Commit
  <2>3. CASE /\ trails' = [trails EXCEPT ![r] = Advanced(Committed(t, c))]
             /\ loop' = IF Advanced(t).stage = "answered" THEN NoRun ELSE r
    <3>1. TrailStands(Advanced(Committed(t, c)))
      BY <2>1, <2>2, CommitKeeps
    <3> QED
      BY <1>1, <2>2, <2>3, <3>1
  <2>4. CASE trails' = [trails EXCEPT ![r].stage = "answered"] /\ loop' = NoRun
    <3>1. trails' = [trails EXCEPT ![r] = [t EXCEPT !.stage = "answered"]]
      BY <2>1, <2>4
    <3>2. TrailStands([t EXCEPT !.stage = "answered"])
      BY <2>2, EndKeeps
    <3> QED
      BY <1>1, <2>2, <2>4, <3>1, <3>2
  <2> QED
    BY <1>3, <2>1, <2>3, <2>4 DEF Commit
<1>4. ASSUME NEW r \in Runs, store(r) PROVE TrailInv'
  <2>1. PICK t, c : t = trails[r] /\ c = execute_simple_run(t.fails)[t.pc]
    OBVIOUS
  <2>2. TrailStands(t) /\ c.op = "file" /\ UNCHANGED upload /\ loop' = NoRun
        /\ trails' = [trails EXCEPT ![r].stage = "storing", ![r].files[c.of] = "partial"]
    BY <1>4, <2>1 DEF TrailInv, store
  <2>3. PICK s \in StepIds : s = c.of /\ t.pc = 8*s + 1
    BY <2>1, <2>2, Places
  <2>4. PICK u : u = [t EXCEPT !.stage = "storing", !.files[s] = "partial"]
    OBVIOUS
  <2>5. trails' = [trails EXCEPT ![r] = u]
    BY <2>1, <2>2, <2>3, <2>4 DEF TrailInv
  <2>6. /\ u \in TrailSet /\ u.fails = t.fails /\ u.stage = "storing" /\ u.pc = t.pc
        /\ \A w \in StepIds : w # s => u.files[w] = t.files[w]
        /\ u.events = t.events /\ u.status = t.status /\ u.logs = t.logs
    BY <2>2, <2>3, <2>4 DEF TrailStands, TrailSet
  <2>7. TrailStands(u)
    BY <2>2, <2>3, <2>6, FileKeeps
  <2> QED
    BY <1>1, <2>2, <2>5, <2>7
<1>5. ASSUME NEW r \in Runs, Stored(r) PROVE TrailInv'
  <2>1. PICK t, c : t = trails[r] /\ c = execute_simple_run(t.fails)[t.pc]
    OBVIOUS
  <2>2. TrailStands(t) /\ t.stage = "storing" /\ UNCHANGED upload
    BY <1>5, <2>1 DEF TrailInv, Stored
  <2>3. CASE trails' = [trails EXCEPT ![r] =
                  [Advanced(t) EXCEPT !.stage = "commits", !.files[c.of] = "whole"]]
             /\ loop' = r
    <3>1. t \in TrailSet /\ t.pc \in {9, 17} /\ Len(execute_simple_run(t.fails)) = 22
      BY <2>2, ScriptIs DEF TrailStands, TrailSet, IsScript
    <3>2. c.op = "file"
      <4>1. IsScript(execute_simple_run(t.fails), Ends(t.fails))
        BY <3>1, ScriptIs DEF TrailSet
      <4> QED
        BY <2>1, <3>1, <4>1, CommitFields DEF IsScript
    <3>3. PICK s \in StepIds : s = c.of /\ t.pc = 8*s + 1
      BY <2>1, <2>2, <3>2, Places
    <3>4. Advanced(t) = [t EXCEPT !.pc = @ + 1]
      BY <3>1 DEF Advanced
    <3>5. PICK d : d = [t EXCEPT !.pc = @ + 1]
      OBVIOUS
    <3>6. /\ d \in TrailSet /\ d.fails = t.fails /\ d.pc = t.pc + 1 /\ d.files = t.files
          /\ d.events = t.events /\ d.status = t.status /\ d.logs = t.logs
      BY <3>1, <3>5 DEF TrailSet
    <3>7. PICK u : u = [d EXCEPT !.stage = "commits", !.files[s] = "whole"]
      OBVIOUS
    <3>8. trails' = [trails EXCEPT ![r] = u]
      BY <2>3, <3>3, <3>4, <3>5, <3>7
    <3>9. /\ u \in TrailSet /\ u.fails = t.fails /\ u.stage = "commits" /\ u.pc = t.pc + 1
          /\ u.files[s] = "whole"
          /\ \A w \in StepIds : w # s => u.files[w] = t.files[w]
          /\ u.events = t.events /\ u.status = t.status /\ u.logs = t.logs
      BY <3>3, <3>6, <3>7 DEF TrailSet
    <3>10. TrailStands(u)
      BY <2>2, <3>3, <3>9, FileKeeps
    <3> QED
      BY <1>1, <2>2, <2>3, <3>8, <3>10
  <2>4. CASE trails' = [trails EXCEPT ![r].stage = "answered"] /\ UNCHANGED loop
    <3>1. trails' = [trails EXCEPT ![r] = [t EXCEPT !.stage = "answered"]]
      BY <2>1, <2>4
    <3>2. TrailStands([t EXCEPT !.stage = "answered"])
      BY <2>2, EndKeeps
    <3> QED
      BY <1>1, <2>2, <2>4, <3>1, <3>2 DEF TrailInv
  <2> QED
    BY <1>5, <2>1, <2>3, <2>4 DEF Stored
<1>6. ASSUME NEW r \in Runs, cancel_run(r) PROVE TrailInv'
  <2>1. PICK t : t = trails[r]
    OBVIOUS
  <2>2. TrailStands(t) /\ t.status[0] \in {"CREATED", "RUNNING"} /\ UNCHANGED <<upload, loop>>
        /\ trails' = [trails EXCEPT ![r] = [t EXCEPT !.status[0] = "CANCELLED"]]
    BY <1>6, <2>1 DEF TrailInv, cancel_run
  <2>3. TrailStands([t EXCEPT !.status[0] = "CANCELLED"])
    BY <2>2, CancelKeeps
  <2> QED
    BY <1>1, <2>2, <2>3 DEF TrailInv
<1>7. CASE create_artifact
  <2>1. UNCHANGED <<trails, loop>> /\ UploadStands'
    BY <1>7, UploadKeeps DEF create_artifact, TrailInv
  <2> QED
    BY <2>1 DEF TrailInv
<1>8. CASE ProcessDies
  <2>1. \A r \in Runs : TrailStands(trails'[r])
    <3>1. TAKE r \in Runs
    <3>2. PICK t : t = trails[r] /\ TrailStands(t)
      BY DEF TrailInv
    <3>3. CASE t.stage # "none"
      <4>1. trails'[r] = [t EXCEPT !.stage = "answered"]
        BY <1>8, <3>2, <3>3 DEF ProcessDies
      <4> QED
        BY <3>2, <4>1, EndKeeps
    <3>4. CASE t.stage = "none"
      <4>1. trails'[r] = NoTrail
        BY <1>8, <3>2, <3>4 DEF ProcessDies
      <4>2. NoTrail \in TrailSet
        BY DEF NoTrail, TrailSet, StepIds
      <4>3. /\ NoTrail.stage = "none" /\ NoTrail.pc = 1 /\ NoTrail.logs = {}
            /\ NoTrail.events = {}
            /\ \A w \in {0} \union StepIds : NoTrail.status[w] = "none"
        BY DEF NoTrail
      <4> QED
        BY <4>1, <4>2, <4>3, Ranks
        DEF TrailStands, StepStands, RunStands, EventsFollow, StepIds
    <3> QED
      BY <3>3, <3>4
  <2>2. trails' \in [Runs -> TrailSet] /\ loop' = NoRun
    BY <1>8, <2>1 DEF ProcessDies, TrailStands
  <2>3. UploadStands'
    BY <1>8 DEF ProcessDies, TrailInv, UploadStands
  <2> QED
    BY <2>1, <2>2, <2>3 DEF TrailInv
<1>9. CASE UNCHANGED trailVars
  BY <1>9 DEF trailVars, TrailInv, UploadStands
<1> QED
  BY <1>2, <1>3, <1>4, <1>5, <1>6, <1>7, <1>8, <1>9 DEF TrailNext

(* Every step of every request keeps the invariant.                        *)
LEMMA TrailInvariant == TrailSpec => []TrailInv
BY TrailStart, TrailStep, PTL DEF TrailSpec

(* The types of the trails.                                                *)
LEMMA TrailTypes == TrailInv => TrailTypeOK
<1> SUFFICES ASSUME TrailInv PROVE TrailTypeOK
  OBVIOUS
<1>1. Len(execute_simple_run(TRUE)) = 22
  BY ScriptIs DEF IsScript
<1>2. ASSUME NEW r \in Runs
      PROVE  /\ trails[r].stage \in {"none", "commits", "storing", "answered"}
             /\ trails[r].pc \in 1..22 /\ trails[r].logs \subseteq StepIds
             /\ \A w \in {0} \union StepIds : Rank(trails[r].status[w]) \in 0..3
  <2>1. trails[r] \in TrailSet
    BY DEF TrailInv
  <2>2. \A w \in {0} \union StepIds : trails[r].status[w] \in
            {"none", "CREATED", "RUNNING", "COMPLETED", "FAILED", "CANCELLED"}
    BY <2>1 DEF TrailSet
  <2>3. \A status \in {"none", "CREATED", "RUNNING", "COMPLETED", "FAILED", "CANCELLED"} :
            Rank(status) \in 0..3
    BY Ranks
  <2> QED
    BY <2>1, <2>2, <2>3 DEF TrailSet
<1> QED
  BY <1>1, <1>2 DEF TrailInv, TrailTypeOK

(***************************************************************************)
(* What a request left behind is a true account, wherever it or the        *)
(* process ended and whatever was cancelled or uploaded beside it, for any *)
(* number of runs and faults (execute_simple_run, finalize, cancel_run,    *)
(* create_artifact).                                                       *)
(***************************************************************************)
THEOREM TrailsAreTrue == TrailSpec => []TrailIsTrue
<1>1. TrailInv => TrailIsTrue
  <2> SUFFICES ASSUME TrailInv PROVE TrailIsTrue
    OBVIOUS
  <2>1. (upload.row => upload.file = "whole") /\ (upload.event => upload.row)
    BY DEF TrailInv, UploadStands
  <2>2. ASSUME NEW r \in Runs, NEW t, t = trails[r]
        PROVE  /\ \A s \in t.logs : t.files[s] = "whole"
               /\ \A s \in StepIds : Rank(t.status[s]) = 3 => s \in t.logs
               /\ t.status[0] = "COMPLETED" => \A s \in StepIds : t.status[s] = "COMPLETED"
               /\ t.status[0] = "FAILED" => \E s \in StepIds : t.status[s] = "FAILED"
               /\ \A e \in t.events :
                      /\ Rank(e[2]) <= Rank(t.status[e[1]])
                      /\ Rank(e[2]) = 3 => t.status[e[1]] = e[2]
    <3>1. /\ t \in TrailSet /\ t.pc \in 1..22 /\ t.logs \subseteq StepIds
          /\ StepStands(t, 1) /\ StepStands(t, 2) /\ RunStands(t) /\ EventsFollow(t)
      BY <2>2 DEF TrailInv, TrailStands, TrailSet, StepIds
    <3>2. \A s \in t.logs : t.files[s] = "whole"
      BY <3>1 DEF StepStands, StepIds
    <3>3. \A s \in StepIds : Rank(t.status[s]) = 3 => s \in t.logs
      <4>1. TAKE s \in StepIds
      <4>2. t.status[s] \in {"none", "CREATED", "RUNNING", "COMPLETED", "FAILED", "CANCELLED"}
        BY <3>1 DEF TrailSet
      <4> QED
        BY <3>1, <4>2, Ranks DEF StepStands, StepIds
    <3>4. t.status[0] = "COMPLETED" => \A s \in StepIds : t.status[s] = "COMPLETED"
      BY <3>1 DEF StepStands, RunStands, StepIds, Ends
    <3>5. t.status[0] = "FAILED" => t.status[2] = "FAILED"
      BY <3>1 DEF StepStands, RunStands, Ends
    <3> QED
      BY <3>1, <3>2, <3>3, <3>4, <3>5 DEF EventsFollow, StepIds
  <2> QED
    BY <2>1, <2>2 DEF TrailIsTrue
<1> QED
  BY <1>1, TrailInvariant, PTL

-----------------------------------------------------------------------------
(* The smoke test of a generated application.                              *)

(* What the compiler may have written of an application.                   *)
AppFits ==
    /\ app.deps \in [Entities -> SUBSET Entities]
    /\ app.guarded \in BOOLEAN /\ app.updates \subseteq Entities
    /\ \A e \in Entities :
          LET gate == app.gate[e]
          IN  /\ gate.kind \in {"open", "allowed", "blocked"}
              /\ gate.kind # "open" =>
                    /\ gate.parent \in app.deps[e]
                    /\ gate.statuses # {} /\ gate.statuses \subseteq Statuses

Passes == [all : Seq(Entities), pass : Seq(Entities), progressed : BOOLEAN,
           stage : {"gate", "update"}]
Records == [Entities -> {NoRecord} \union Statuses]

ExerciseFits ==
    /\ AppFits
    /\ pending \in Passes
    /\ IsInjective(pending.all) /\ IsInjective(pending.pass)
    /\ ToSet(pending.pass) \subseteq ToSet(pending.all)
    /\ created_records \in Records /\ actual \in Records
    /\ verdict \in {"running", "passed", "refused", "unresolved"}

(* An entity is pending until it has a record, but for the one that is     *)
(* being updated; and that one still has its first status.                 *)
Due == IF pending.stage = "update" THEN ToSet(pending.all) \ {Current}
                                   ELSE ToSet(pending.all)

RecordsFit ==
    /\ \A e \in Entities : created_records[e] = NoRecord <=> e \in Due
    /\ pending.stage = "update" =>
          /\ pending.pass # <<>>
          /\ created_records[Current] = 1 /\ actual[Current] = 1

(* An entity that a pass without progress has left behind still waits.     *)
LeftBehindWait ==
    pending.stage = "gate" /\ ~pending.progressed =>
        \A e \in ToSet(pending.all) \ ToSet(pending.pass) : ~Ready(e)

Passable == Acyclic /\ \A e \in Gated : Reachable(e)

(* A record is as the test remembers it, or as its own update left it; the *)
(* parent of a record that exists is where the gate wants it, and no       *)
(* parent is ever steered past a status that a gate asks for.              *)
Remembered(e) ==
    \/ actual[e] = created_records[e]
    \/ created_records[e] = 1 /\ actual[e] = 2 /\ e \in app.updates

ParentsAreSteered ==
    /\ \A e \in Entities : created_records[e] # NoRecord =>
           /\ Ready(e) /\ Remembered(e)
           /\ e \in Gated => created_records[app.gate[e].parent] \in app.gate[e].statuses
    /\ app.guarded => \A e \in Gated : \A s \in app.gate[e].statuses :
                          created_records[app.gate[e].parent] <= s

ExerciseInv ==
    /\ ExerciseFits /\ RecordsFit /\ LeftBehindWait
    /\ Passable => ParentsAreSteered /\ verdict \in {"running", "passed"}

(* The least of a set of numbers.                                          *)
LEMMA LeastOf ==
    ASSUME NEW S, S \subseteq Nat, S # {}
    PROVE  Min(S) \in S /\ \A y \in S : Min(S) <= y
<1> DEFINE R == OpToRel(<, Nat)
<1>1. IsWellFoundedOn(R, Nat)
  BY NatLessThanWellFounded
<1>2. \A x, y \in Nat : <<y, x>> \in R <=> y < x
  BY DEF OpToRel
<1> HIDE DEF R
<1>3. PICK x \in S : \A y \in S : ~(<<y, x>> \in R)
  BY <1>1, WFMin
<1>4. \A y \in S : x <= y
  <2>1. ASSUME NEW y \in S PROVE x <= y
    <3>1. x \in Nat /\ y \in Nat /\ ~(y < x)
      BY <1>2, <1>3
    <3> QED
      BY <3>1
  <2> QED
    BY <2>1
<1> QED
  BY <1>4, Zenon DEF Min

(* What is left of a sequence without repetitions when one of its elements *)
(* is removed.                                                             *)
LEMMA TakesOneOut ==
    ASSUME NEW S, NEW s \in Seq(S), IsInjective(s), NEW k \in 1..Len(s)
    PROVE  /\ RemoveFirst(s, s[k]) \in Seq(S)
           /\ IsInjective(RemoveFirst(s, s[k]))
           /\ ToSet(RemoveFirst(s, s[k])) = ToSet(s) \ {s[k]}
<1> DEFINE a == SubSeq(s, 1, k - 1)
           b == SubSeq(s, k + 1, Len(s))
           t == a \o b
<1>1. RemoveFirst(s, s[k]) = t
  <2>1. {i \in 1..Len(s) : s[i] = s[k]} = {k}
    BY DEF IsInjective
  <2>2. Min({k}) = k
    BY DEF Min
  <2> QED
    BY <2>1, <2>2 DEF RemoveFirst, RemoveAt, SelectInSeq
<1>2. a \in Seq(S) /\ Len(a) = k - 1 /\ \A i \in 1..k - 1 : a[i] = s[i]
  BY SubSeqProperties
<1>3. b \in Seq(S) /\ Len(b) = Len(s) - k /\ \A i \in 1..Len(s) - k : b[i] = s[k + i]
  BY SubSeqProperties
<1> HIDE DEF a, b
<1>4. /\ t \in Seq(S) /\ Len(t) = Len(s) - 1
      /\ \A i \in 1..Len(t) : t[i] = IF i < k THEN a[i] ELSE b[i - (k - 1)]
  BY <1>2, <1>3, ConcatProperties
<1>5. \A i \in 1..Len(t) : t[i] = IF i < k THEN s[i] ELSE s[i + 1]
  <2>1. ASSUME NEW i \in 1..Len(t), i >= k PROVE t[i] = s[i + 1]
    <3>1. i - (k - 1) \in 1..Len(s) - k /\ k + (i - (k - 1)) = i + 1
      BY <1>4, <2>1
    <3> QED
      BY <1>4, <1>3, <2>1, <3>1
  <2> QED
    BY <1>4, <1>2, <2>1
<1> HIDE DEF t
<1>6. \A i, j \in 1..Len(s) : s[i] = s[j] => i = j
  BY DEF IsInjective
<1>7. DOMAIN t = 1..Len(t)
  BY <1>4
<1>8. IsInjective(t)
  <2>1. ASSUME NEW i \in 1..Len(t), NEW j \in 1..Len(t), t[i] = t[j] PROVE i = j
    <3>1. (IF i < k THEN i ELSE i + 1) = (IF j < k THEN j ELSE j + 1)
      BY <1>4, <1>5, <1>6, <2>1
    <3> QED
      BY <3>1
  <2> QED
    BY <1>7, <2>1 DEF IsInjective
<1>9. ToSet(t) \subseteq ToSet(s) \ {s[k]}
  <2>1. ASSUME NEW i \in 1..Len(t) PROVE t[i] \in ToSet(s) /\ t[i] # s[k]
    <3>1. PICK j \in 1..Len(s) : j # k /\ t[i] = s[j]
      BY <1>4, <1>5
    <3> QED
      BY <1>6, <3>1 DEF ToSet
  <2> QED
    BY <1>7, <2>1 DEF ToSet
<1>10. ASSUME NEW i \in 1..Len(s), i # k PROVE s[i] \in ToSet(t)
  <2>1. CASE i < k
    <3>1. i \in 1..Len(t) /\ t[i] = s[i]
      BY <1>4, <1>5, <2>1
    <3> QED
      BY <1>4, <3>1 DEF ToSet
  <2>2. CASE i > k
    <3>1. i - 1 \in 1..Len(t) /\ t[i - 1] = s[i]
      BY <1>4, <1>5, <2>2
    <3> QED
      BY <1>4, <3>1 DEF ToSet
  <2> QED
    BY <1>10, <2>1, <2>2
<1>11. ToSet(s) \ {s[k]} \subseteq ToSet(t)
  BY <1>10 DEF ToSet
<1> QED
  BY <1>1, <1>4, <1>8, <1>9, <1>11

(* What is left of it without its first element.                           *)
LEMMA TailTakesHead ==
    ASSUME NEW S, NEW s \in Seq(S), IsInjective(s), s # <<>>
    PROVE  /\ Head(s) \in S /\ Head(s) \in ToSet(s)
           /\ Tail(s) \in Seq(S) /\ IsInjective(Tail(s))
           /\ ToSet(Tail(s)) = ToSet(s) \ {Head(s)}
<1>1. /\ Len(s) \in Nat /\ Len(s) >= 1 /\ DOMAIN s = 1..Len(s)
      /\ Head(s) = s[1] /\ Head(s) \in S
  OBVIOUS
<1>2. /\ Tail(s) \in Seq(S) /\ DOMAIN Tail(s) = 1..(Len(s) - 1)
      /\ \A i \in 1..(Len(s) - 1) : Tail(s)[i] = s[i + 1]
  BY <1>1
<1>3. \A i, j \in 1..Len(s) : s[i] = s[j] => i = j
  BY <1>1 DEF IsInjective
<1>4. IsInjective(Tail(s))
  BY <1>1, <1>2, <1>3 DEF IsInjective
<1>5. ToSet(Tail(s)) \subseteq ToSet(s) \ {Head(s)}
  <2>1. ASSUME NEW i \in 1..(Len(s) - 1)
        PROVE  Tail(s)[i] \in ToSet(s) /\ Tail(s)[i] # Head(s)
    BY <1>1, <1>2, <1>3 DEF ToSet
  <2> QED
    BY <1>2, <2>1 DEF ToSet
<1>6. ToSet(s) \ {Head(s)} \subseteq ToSet(Tail(s))
  <2>1. ASSUME NEW i \in 1..Len(s), i # 1 PROVE s[i] \in ToSet(Tail(s))
    <3>1. i - 1 \in 1..(Len(s) - 1) /\ Tail(s)[i - 1] = s[i]
      BY <1>1, <1>2, <2>1
    <3> QED
      BY <1>2, <3>1 DEF ToSet
  <2> QED
    BY <1>1, <2>1 DEF ToSet
<1>7. Head(s) \in ToSet(s)
  BY <1>1 DEF ToSet
<1> QED
  BY <1>1, <1>2, <1>4, <1>5, <1>6, <1>7

(* The gates of an application that can pass.                              *)
LEMMA PassableGates ==
    ASSUME AppFits, Passable, NEW e \in Gated
    PROVE  /\ app.gate[e].kind = "allowed"
           /\ app.gate[e].parent \in app.deps[e] /\ app.gate[e].parent \in Entities
           /\ app.gate[e].statuses # {} /\ app.gate[e].statuses \subseteq Statuses
           /\ app.gate[e].parent \in app.updates => 1 \notin app.gate[e].statuses
           /\ \A f \in Gated : app.gate[f].parent = app.gate[e].parent =>
                                   app.gate[f].statuses = app.gate[e].statuses
<1>1. e \in Entities /\ app.gate[e].kind # "open"
  BY DEF Gated
<1>2. app.deps[e] \subseteq Entities
  BY <1>1 DEF AppFits
<1> QED
  BY <1>1, <1>2 DEF AppFits, Passable, Reachable

(* Statuses are numbers, and a record that the test has is a status.       *)
LEMMA RecordsAre ==
    ASSUME ExerciseFits, NEW e \in Entities
    PROVE  /\ Statuses \subseteq Nat \ {0} /\ NoRecord = 0
           /\ LastStatus \in Nat /\ LastStatus > 1
           /\ created_records[e] \in Nat /\ actual[e] \in Nat
           /\ created_records[e] # 0 => created_records[e] \in Statuses
           /\ actual[e] # 0 => actual[e] \in Statuses
BY ExerciseAssumption DEF ExerciseFits, Records, Statuses, NoRecord

(* An application that can pass serves what the test asks of it, once the  *)
(* parent of the entity is where the test wanted it.                       *)
LEMMA GatesOpen ==
    ASSUME ExerciseInv, Passable, NEW e \in Entities, Ready(e), ~Steered(e)
    PROVE  GateOpen(e)
<1>1. CASE e \notin Gated
  BY <1>1 DEF Gated, GateOpen
<1>2. CASE e \in Gated
  <2> DEFINE p == app.gate[e].parent
  <2>1. /\ app.gate[e].kind = "allowed" /\ p \in app.deps[e] /\ p \in Entities
        /\ p \in app.updates => 1 \notin app.gate[e].statuses
    BY <1>2, PassableGates DEF ExerciseInv, ExerciseFits
  <2>2. created_records[p] \in app.gate[e].statuses /\ created_records[p] # NoRecord
    BY <2>1 DEF Steered, Ready
  <2>3. Remembered(p)
    BY <2>1, <2>2 DEF ExerciseInv, ParentsAreSteered
  <2>4. actual[p] = created_records[p]
    BY <2>1, <2>2, <2>3 DEF Remembered
  <2> QED
    BY <2>1, <2>2, <2>4 DEF GateOpen
<1> QED
  BY <1>1, <1>2

LEMMA ExerciseStart == ExerciseInit => ExerciseInv
<1> SUFFICES ASSUME ExerciseInit PROVE ExerciseInv
  OBVIOUS
<1>1. Contracts \in Seq(Entities) /\ IsInjective(Contracts) /\ ToSet(Contracts) = Entities
  BY ExerciseAssumption DEF Entities
<1>2. AppFits
  <2>1. PICK deps \in [Entities -> SUBSET Entities] :
        \E gate \in {g \in [Entities -> UNION {CompiledGates(deps, e) : e \in Entities}] :
                         \A e \in Entities : g[e] \in CompiledGates(deps, e)},
           guarded \in BOOLEAN, updates \in SUBSET Entities :
             app = [deps |-> deps, gate |-> gate, guarded |-> guarded, updates |-> updates]
    BY DEF ExerciseInit
  <2>2. /\ app.deps = deps /\ app.guarded \in BOOLEAN /\ app.updates \subseteq Entities
        /\ \A e \in Entities : app.gate[e] \in CompiledGates(deps, e)
    BY <2>1
  <2>3. ASSUME NEW e \in Entities, NEW gate \in CompiledGates(deps, e)
        PROVE  /\ gate.kind \in {"open", "allowed", "blocked"}
               /\ gate.kind # "open" =>
                     /\ gate.parent \in deps[e]
                     /\ gate.statuses # {} /\ gate.statuses \subseteq Statuses
    BY <2>3, ExerciseAssumption DEF CompiledGates, Statuses
  <2> QED
    BY <2>2, <2>3 DEF AppFits
<1>3. pending = [all |-> Contracts, pass |-> Contracts, progressed |-> FALSE, stage |-> "gate"]
  BY DEF ExerciseInit
<1>4. /\ pending.all = Contracts /\ pending.pass = Contracts /\ pending.stage = "gate"
      /\ pending.progressed = FALSE /\ pending \in Passes
  BY <1>1, <1>3 DEF Passes
<1>5. /\ \A e \in Entities : created_records[e] = NoRecord
      /\ created_records \in Records /\ actual \in Records /\ verdict = "running"
  BY DEF ExerciseInit, Records
<1>6. ExerciseFits
  BY <1>1, <1>2, <1>4, <1>5 DEF ExerciseFits
<1>7. RecordsFit /\ LeftBehindWait
  BY <1>1, <1>4, <1>5 DEF RecordsFit, LeftBehindWait, Due
<1>8. ASSUME Passable PROVE ParentsAreSteered
  <2>1. ASSUME NEW e \in Gated, NEW s \in app.gate[e].statuses
        PROVE  created_records[app.gate[e].parent] <= s
    <3>1. app.gate[e].parent \in Entities /\ s \in Statuses
      BY <1>2, <1>8, <2>1, PassableGates
    <3>2. created_records[app.gate[e].parent] = 0 /\ s \in Nat
      BY <1>5, <3>1, ExerciseAssumption DEF NoRecord, Statuses
    <3> QED
      BY <3>2
  <2> QED
    BY <1>5, <2>1 DEF ParentsAreSteered
<1> QED
  BY <1>5, <1>6, <1>7, <1>8 DEF ExerciseInv

(* What stays true of the records when the test moves on.                  *)
LEMMA WaitKeeps == ASSUME ExerciseInv, Wait PROVE ExerciseInv'
<1>1. /\ pending \in Passes /\ pending.stage = "gate" /\ pending.pass # <<>>
      /\ ~Ready(Current) /\ pending' = [pending EXCEPT !.pass = Tail(@)]
      /\ UNCHANGED <<app, created_records, actual, verdict>>
  BY DEF ExerciseInv, ExerciseFits, Wait, At
<1>2. /\ Tail(pending.pass) \in Seq(Entities) /\ IsInjective(Tail(pending.pass))
      /\ ToSet(Tail(pending.pass)) = ToSet(pending.pass) \ {Current}
  <2>1. pending.pass \in Seq(Entities) /\ IsInjective(pending.pass)
    BY <1>1 DEF ExerciseInv, ExerciseFits, Passes
  <2> QED
    BY <1>1, <2>1, TailTakesHead DEF Current
<1>3. /\ pending'.all = pending.all /\ pending'.pass = Tail(pending.pass)
      /\ pending'.progressed = pending.progressed /\ pending'.stage = "gate"
      /\ pending' \in Passes
  BY <1>1, <1>2 DEF Passes
<1>4. ExerciseFits'
  BY <1>1, <1>2, <1>3 DEF ExerciseInv, ExerciseFits, AppFits
<1>5. RecordsFit'
  BY <1>1, <1>3 DEF ExerciseInv, RecordsFit, Due
<1>6. LeftBehindWait'
  BY <1>1, <1>2, <1>3 DEF ExerciseInv, LeftBehindWait, Ready
<1> QED
  BY <1>1, <1>4, <1>5, <1>6 DEF ExerciseInv, Passable, ParentsAreSteered, Remembered,
     Ready, Acyclic, Gated, Reachable

(* Where the test steers a parent: a status it may have next, at which the *)
(* gates of its other children still let it be.                            *)
LEMMA SteeringFits ==
    ASSUME ExerciseInv, Passable, NEW e \in Entities, Ready(e), Steered(e),
           NEW p, p = app.gate[e].parent,
           NEW next, next = NextStatus(created_records[p], app.gate[e].statuses)
    PROVE  /\ e \in Gated /\ p \in Entities /\ created_records[p] # NoRecord
           /\ created_records[p] \notin app.gate[e].statuses
           /\ next \in Statuses /\ next \in AllowedTransitions(actual[p])
           /\ app.guarded => \A s \in app.gate[e].statuses : next <= s
<1>1. e \in Gated
  BY DEF Steered, Gated
<1>2. /\ p \in app.deps[e] /\ p \in Entities
      /\ app.gate[e].statuses # {} /\ app.gate[e].statuses \subseteq Statuses
  BY <1>1, PassableGates DEF ExerciseInv, ExerciseFits
<1>3. created_records[p] # NoRecord /\ created_records[p] \notin app.gate[e].statuses
  BY <1>2 DEF Steered, Ready
<1>4. /\ Statuses \subseteq Nat \ {0} /\ NoRecord = 0 /\ LastStatus \in Nat
      /\ created_records[p] \in Nat /\ created_records[p] \in Statuses
  BY <1>2, <1>3, RecordsAre DEF ExerciseInv
<1>5. CASE ~app.guarded
  <2>1. app.gate[e].statuses \subseteq Nat
    BY <1>2, <1>4
  <2>2. Min(app.gate[e].statuses) \in app.gate[e].statuses
    BY <1>2, <2>1, LeastOf
  <2>3. next = Min(app.gate[e].statuses)
    BY <1>5 DEF NextStatus
  <2>4. next \in Statuses
    BY <1>2, <2>2, <2>3
  <2> QED
    BY <1>1, <1>2, <1>3, <1>5, <2>4 DEF AllowedTransitions
<1>6. CASE app.guarded
  <2>1. \A s \in app.gate[e].statuses : created_records[p] <= s
    BY <1>1, <1>6 DEF ExerciseInv, ParentsAreSteered
  <2>2. \A s \in app.gate[e].statuses :
            s \in Nat /\ s <= LastStatus /\ created_records[p] < s
    BY <1>2, <1>3, <1>4, <2>1 DEF Statuses
  <2>3. PICK s \in app.gate[e].statuses : TRUE
    BY <1>2
  <2>4. next = created_records[p] + 1
    BY <1>6, <2>2, <2>3 DEF NextStatus
  <2>5. next \in Statuses /\ \A t \in app.gate[e].statuses : next <= t
    BY <1>4, <2>2, <2>3, <2>4 DEF Statuses
  <2>6. Remembered(p)
    BY <1>2, <1>3 DEF ExerciseInv, ParentsAreSteered
  <2>7. next \in {actual[p], actual[p] + 1}
    BY <2>4, <2>6 DEF Remembered
  <2> QED
    BY <1>1, <1>2, <1>3, <1>6, <2>5, <2>7 DEF AllowedTransitions
<1> QED
  BY <1>5, <1>6, <1>4 DEF ExerciseInv, ExerciseFits, AppFits

(* The status of a parent that is steered is written to its record.        *)
LEMMA SteeredFits ==
    ASSUME ExerciseInv, pending.stage = "gate", NEW p \in Entities,
           created_records[p] # NoRecord, NEW next \in Statuses,
           created_records' = [created_records EXCEPT ![p] = next],
           actual' = [actual EXCEPT ![p] = next], UNCHANGED <<app, pending, verdict>>
    PROVE  /\ ExerciseFits' /\ RecordsFit' /\ LeftBehindWait'
           /\ created_records'[p] = next /\ actual'[p] = next
           /\ \A e \in Entities : /\ (created_records'[e] = NoRecord)
                                        <=> (created_records[e] = NoRecord)
                                  /\ e # p => /\ created_records'[e] = created_records[e]
                                              /\ actual'[e] = actual[e]
<1>1. /\ created_records \in Records /\ actual \in Records
      /\ next # NoRecord /\ created_records' \in Records /\ actual' \in Records
  BY ExerciseAssumption DEF ExerciseInv, ExerciseFits, Records, Statuses, NoRecord
<1>2. /\ created_records'[p] = next /\ actual'[p] = next
      /\ \A e \in Entities : e # p => /\ created_records'[e] = created_records[e]
                                      /\ actual'[e] = actual[e]
  BY <1>1 DEF Records
<1>3. \A e \in Entities : (created_records'[e] = NoRecord) <=> (created_records[e] = NoRecord)
  BY <1>1, <1>2
<1>4. ExerciseFits'
  BY <1>1 DEF ExerciseInv, ExerciseFits, AppFits
<1>5. RecordsFit'
  BY <1>3 DEF ExerciseInv, RecordsFit, Due
<1>6. LeftBehindWait'
  <2>1. ASSUME NEW e \in Entities PROVE Ready(e)' <=> Ready(e)
    BY <1>3 DEF Ready, ExerciseInv, ExerciseFits, AppFits
  <2>2. ToSet(pending.all) \subseteq Entities
    BY DEF ExerciseInv, ExerciseFits, Passes, ToSet
  <2> QED
    BY <2>1, <2>2 DEF ExerciseInv, LeftBehindWait
<1> QED
  BY <1>2, <1>3, <1>4, <1>5, <1>6

(* Passable speaks of the application, which no step changes.              *)
LEMMA AppStays ==
    ASSUME UNCHANGED app
    PROVE  (Passable' <=> Passable) /\ Gated' = Gated
BY DEF Passable, Acyclic, Gated, Reachable

LEMMA PrerequisitesKeep ==
    ASSUME ExerciseInv, ensure_parent_status_gate_prerequisites PROVE ExerciseInv'
<1> DEFINE e == Current
           p == app.gate[e].parent
           next == NextStatus(created_records[p], app.gate[e].statuses)
<1>1. /\ At("gate") /\ Ready(e) /\ Steered(e)
      /\ IF next \in AllowedTransitions(actual[p]) /\ GateOpen(p)
         THEN /\ actual' = [actual EXCEPT ![p] = next]
              /\ created_records' = [created_records EXCEPT ![p] = next]
              /\ UNCHANGED <<app, pending, verdict>>
         ELSE Refused
  BY DEF ensure_parent_status_gate_prerequisites
<1>2. e \in Entities
  <2>1. pending.pass \in Seq(Entities) /\ IsInjective(pending.pass) /\ pending.pass # <<>>
    BY <1>1 DEF ExerciseInv, ExerciseFits, Passes, At
  <2> QED
    BY <2>1, TailTakesHead DEF Current
<1> HIDE DEF e, p, next
<1>3. p \in app.deps[e] /\ p \in Entities /\ created_records[p] # NoRecord
  <2>1. app.deps[e] \subseteq Entities /\ p \in app.deps[e]
    BY <1>1, <1>2 DEF ExerciseInv, ExerciseFits, AppFits, Steered, p
  <2> QED
    BY <1>1, <2>1 DEF Ready
<1>4. CASE ~Passable
  <2>1. CASE next \in AllowedTransitions(actual[p]) /\ GateOpen(p)
    <3>1. next \in Statuses
      BY <2>1 DEF AllowedTransitions
    <3>2. ExerciseFits' /\ RecordsFit' /\ LeftBehindWait' /\ UNCHANGED app
      BY <1>1, <1>3, <2>1, <3>1, SteeredFits DEF At
    <3> QED
      BY <1>4, <3>2, AppStays DEF ExerciseInv
  <2>2. CASE Refused
    <3>1. ExerciseFits'
      BY <2>2 DEF Refused, ExerciseInv, ExerciseFits, AppFits
    <3>2. RecordsFit' /\ LeftBehindWait'
      BY <2>2 DEF Refused, ExerciseInv, RecordsFit, Due, Current, LeftBehindWait, Ready
    <3> QED
      BY <1>4, <2>2, <3>1, <3>2, AppStays DEF ExerciseInv, Refused
  <2> QED
    BY <1>1, <2>1, <2>2
<1>5. CASE Passable
  <2>1. /\ e \in Gated /\ created_records[p] \notin app.gate[e].statuses
        /\ next \in Statuses /\ next \in AllowedTransitions(actual[p])
        /\ app.guarded => \A s \in app.gate[e].statuses : next <= s
    BY <1>1, <1>2, <1>5, SteeringFits DEF p, next
  <2>2. GateOpen(p)
    <3>1. Ready(p) /\ (p \in Gated =>
              created_records[app.gate[p].parent] \in app.gate[p].statuses)
      BY <1>3, <1>5 DEF ExerciseInv, ParentsAreSteered
    <3>2. ~Steered(p)
      BY <1>3, <3>1 DEF Steered, Gated
    <3> QED
      BY <1>3, <1>5, <3>1, <3>2, GatesOpen
  <2>3. /\ actual' = [actual EXCEPT ![p] = next]
        /\ created_records' = [created_records EXCEPT ![p] = next]
        /\ UNCHANGED <<app, pending, verdict>>
    BY <1>1, <2>1, <2>2
  <2>4. /\ ExerciseFits' /\ RecordsFit' /\ LeftBehindWait'
        /\ created_records'[p] = next /\ actual'[p] = next
        /\ \A x \in Entities : /\ (created_records'[x] = NoRecord)
                                     <=> (created_records[x] = NoRecord)
                               /\ x # p => /\ created_records'[x] = created_records[x]
                                           /\ actual'[x] = actual[x]
    BY <1>1, <1>3, <2>1, <2>3, SteeredFits DEF At
  <2>5. Gated' = Gated /\ Gated \subseteq Entities /\ app' = app
    BY <2>3, AppStays DEF Gated
  <2>6. \A f \in Gated : /\ app.gate[f].parent \in Entities
                         /\ app.gate[f].parent = p =>
                                app.gate[f].statuses = app.gate[e].statuses
    BY <1>5, <2>1, PassableGates DEF ExerciseInv, ExerciseFits, p
  <2>7. ASSUME NEW x \in Entities, created_records'[x] # NoRecord
        PROVE  /\ Ready(x)' /\ Remembered(x)'
               /\ x \in Gated =>
                     created_records'[app.gate[x].parent] \in app.gate[x].statuses
    <3>1. created_records[x] # NoRecord
      BY <2>4, <2>7
    <3>2. /\ Ready(x) /\ Remembered(x)
          /\ x \in Gated => created_records[app.gate[x].parent] \in app.gate[x].statuses
      BY <1>5, <3>1 DEF ExerciseInv, ParentsAreSteered
    <3>3. app.deps[x] \subseteq Entities
      BY DEF ExerciseInv, ExerciseFits, AppFits
    <3>4. Ready(x)'
      BY <2>4, <2>5, <3>2, <3>3 DEF Ready
    <3>5. Remembered(x)'
      BY <2>4, <2>5, <3>2 DEF Remembered
    <3>6. ASSUME x \in Gated
          PROVE  created_records'[app.gate[x].parent] \in app.gate[x].statuses
      BY <2>1, <2>4, <2>6, <3>2, <3>6
    <3> QED
      BY <3>4, <3>5, <3>6
  <2>8. ASSUME app.guarded, NEW f \in Gated, NEW s \in app.gate[f].statuses
        PROVE  created_records'[app.gate[f].parent] <= s
    <3>1. created_records[app.gate[f].parent] <= s
      BY <1>5, <2>8 DEF ExerciseInv, ParentsAreSteered
    <3> QED
      BY <2>1, <2>4, <2>6, <2>8, <3>1
  <2>9. ParentsAreSteered'
    BY <2>5, <2>7, <2>8 DEF ParentsAreSteered
  <2> QED
    BY <1>5, <2>3, <2>4, <2>9 DEF ExerciseInv
<1> QED
  BY <1>4, <1>5

LEMMA SeedKeeps == ASSUME ExerciseInv, SeedEntity PROVE ExerciseInv'
<1> DEFINE e == Current
<1>1. /\ verdict = "running" /\ pending.pass # <<>> /\ pending.stage = "gate"
      /\ Ready(e) /\ ~Steered(e)
      /\ IF GateOpen(e)
         THEN /\ actual' = [actual EXCEPT ![e] = 1]
              /\ created_records' = [created_records EXCEPT ![e] = 1]
              /\ pending' = [pending EXCEPT !.stage = "update"]
              /\ UNCHANGED <<app, verdict>>
         ELSE Refused
  BY DEF SeedEntity, At
<1>2. pending \in Passes /\ created_records \in Records /\ actual \in Records /\ AppFits
  BY DEF ExerciseInv, ExerciseFits
<1>3. e \in Entities /\ created_records[e] = NoRecord /\ e \in ToSet(pending.all)
  <2>1. pending.pass \in Seq(Entities) /\ IsInjective(pending.pass)
    BY <1>2 DEF ExerciseInv, ExerciseFits, Passes
  <2>2. e \in Entities /\ e \in ToSet(pending.pass)
    BY <1>1, <2>1, TailTakesHead DEF Current
  <2> QED
    BY <1>1, <2>2 DEF ExerciseInv, ExerciseFits, RecordsFit, Due
<1>4. CASE Refused
  <2>1. ExerciseFits'
    BY <1>4 DEF Refused, ExerciseInv, ExerciseFits, AppFits
  <2>2. RecordsFit' /\ LeftBehindWait'
    BY <1>4 DEF Refused, ExerciseInv, RecordsFit, Due, Current, LeftBehindWait, Ready
  <2>3. ~GateOpen(e)
    BY <1>1, <1>4 DEF Refused
  <2>4. ~Passable
    BY <1>1, <1>3, <2>3, GatesOpen
  <2> QED
    BY <1>4, <2>1, <2>2, <2>4, AppStays DEF ExerciseInv, Refused
<1>5. CASE GateOpen(e)
  <2>1. /\ pending'.all = pending.all /\ pending'.pass = pending.pass
        /\ pending'.progressed = pending.progressed /\ pending'.stage = "update"
        /\ pending' \in Passes /\ Current' = e
        /\ UNCHANGED <<app, verdict>>
    BY <1>1, <1>2, <1>5 DEF Passes, Current
  <2> HIDE DEF e
  <2>2. 1 \in Statuses /\ 1 # NoRecord /\ Statuses \subseteq Nat \ {0}
    BY ExerciseAssumption DEF Statuses, NoRecord
  <2>3. /\ created_records'[e] = 1 /\ actual'[e] = 1
        /\ \A x \in Entities : x # e => /\ created_records'[x] = created_records[x]
                                        /\ actual'[x] = actual[x]
        /\ created_records' \in Records /\ actual' \in Records
    BY <1>1, <1>2, <1>3, <1>5, <2>2 DEF Records
  <2>4. ExerciseFits'
    BY <2>1, <2>3 DEF ExerciseInv, ExerciseFits, AppFits
  <2>5. RecordsFit'
    <3>1. Due' = ToSet(pending.all) \ {e} /\ Due = ToSet(pending.all)
      BY <1>1, <2>1 DEF Due
    <3>2. \A x \in Entities : created_records'[x] = NoRecord <=> x \in Due'
      BY <1>3, <2>2, <2>3, <3>1 DEF ExerciseInv, RecordsFit
    <3> QED
      BY <1>1, <2>1, <2>3, <3>2 DEF RecordsFit
  <2>6. LeftBehindWait'
    BY <2>1 DEF LeftBehindWait
  <2>7. Gated' = Gated /\ Gated \subseteq Entities /\ app' = app
    BY <2>1, AppStays DEF Gated
  <2>8. ASSUME Passable, NEW x \in Entities, created_records'[x] # NoRecord
        PROVE  /\ Ready(x)' /\ Remembered(x)'
               /\ x \in Gated =>
                     created_records'[app.gate[x].parent] \in app.gate[x].statuses
    <3>1. /\ Ready(x) /\ (x \in Gated =>
                created_records[app.gate[x].parent] \in app.gate[x].statuses)
      <4>1. CASE x = e
        <5>1. x \in Gated => app.gate[x].kind = "allowed"
          BY <1>2, <2>8, PassableGates
        <5> QED
          BY <1>1, <4>1, <5>1 DEF Steered
      <4>2. CASE x # e
        BY <2>3, <2>8, <4>2 DEF ExerciseInv, ParentsAreSteered
      <4> QED
        BY <4>1, <4>2
    <3>2. app.deps[x] \subseteq Entities
      BY <1>2 DEF AppFits
    <3>3. \A d \in app.deps[x] : d # e /\ created_records'[d] = created_records[d]
      BY <1>3, <2>3, <3>1, <3>2 DEF Ready
    <3>4. Ready(x)'
      BY <2>7, <3>1, <3>3 DEF Ready
    <3>5. Remembered(x)'
      <4>1. CASE x = e
        BY <2>3, <4>1 DEF Remembered
      <4>2. CASE x # e
        BY <2>3, <2>7, <2>8, <4>2 DEF ExerciseInv, ParentsAreSteered, Remembered
      <4> QED
        BY <4>1, <4>2
    <3>6. x \in Gated => app.gate[x].parent \in app.deps[x]
      BY <1>2, <2>8, PassableGates
    <3> QED
      BY <3>1, <3>3, <3>4, <3>5, <3>6
  <2>9. ASSUME Passable, app.guarded, NEW f \in Gated, NEW s \in app.gate[f].statuses
        PROVE  created_records'[app.gate[f].parent] <= s
    <3>1. app.gate[f].parent \in Entities /\ s \in Statuses
      BY <1>2, <2>9, PassableGates
    <3>2. created_records[app.gate[f].parent] <= s
      BY <2>9 DEF ExerciseInv, ParentsAreSteered
    <3>3. 1 <= s
      <4>1. s \in Nat \ {0}
        BY <2>2, <3>1, Zenon
      <4> QED
        BY <4>1
    <3> QED
      BY <2>3, <3>1, <3>2, <3>3
  <2>10. Passable => ParentsAreSteered'
    BY <2>7, <2>8, <2>9 DEF ParentsAreSteered
  <2> QED
    BY <2>1, <2>4, <2>5, <2>6, <2>10, AppStays DEF ExerciseInv
<1> QED
  BY <1>1, <1>4, <1>5

LEMMA UpdateKeeps == ASSUME ExerciseInv, UpdateEntity PROVE ExerciseInv'
<1> DEFINE e == Current
<1>1. /\ verdict = "running" /\ pending.pass # <<>> /\ pending.stage = "update"
      /\ actual' = [actual EXCEPT ![e] = IF e \in app.updates THEN 2 ELSE @]
      /\ pending' = [all |-> RemoveFirst(pending.all, e), pass |-> Tail(pending.pass),
                     progressed |-> TRUE, stage |-> "gate"]
      /\ UNCHANGED <<app, created_records, verdict>>
  BY DEF UpdateEntity, At
<1>2. pending \in Passes /\ created_records \in Records /\ actual \in Records /\ AppFits
  BY DEF ExerciseInv, ExerciseFits
<1>3. /\ e \in Entities /\ e \in ToSet(pending.all)
      /\ Tail(pending.pass) \in Seq(Entities) /\ IsInjective(Tail(pending.pass))
      /\ ToSet(Tail(pending.pass)) \subseteq ToSet(pending.all) \ {e}
  <2>1. pending.pass \in Seq(Entities) /\ IsInjective(pending.pass)
    BY <1>2 DEF ExerciseInv, ExerciseFits, Passes
  <2>2. /\ e \in Entities /\ e \in ToSet(pending.pass)
        /\ Tail(pending.pass) \in Seq(Entities) /\ IsInjective(Tail(pending.pass))
        /\ ToSet(Tail(pending.pass)) = ToSet(pending.pass) \ {e}
    BY <1>1, <2>1, TailTakesHead DEF Current
  <2>3. ToSet(pending.pass) \subseteq ToSet(pending.all)
    BY DEF ExerciseInv, ExerciseFits
  <2> QED
    BY <2>2, <2>3
<1>4. created_records[e] = 1 /\ actual[e] = 1
  BY <1>1 DEF ExerciseInv, RecordsFit
<1>5. Due = ToSet(pending.all) \ {e}
  BY <1>1 DEF Due
<1> HIDE DEF e
<1>6. /\ RemoveFirst(pending.all, e) \in Seq(Entities)
      /\ IsInjective(RemoveFirst(pending.all, e))
      /\ ToSet(RemoveFirst(pending.all, e)) = ToSet(pending.all) \ {e}
  <2>1. pending.all \in Seq(Entities) /\ IsInjective(pending.all)
    BY <1>2 DEF ExerciseInv, ExerciseFits, Passes
  <2>2. PICK k \in 1..Len(pending.all) : e = pending.all[k]
    BY <1>3, <2>1 DEF ToSet
  <2> QED
    BY <2>1, <2>2, TakesOneOut
<1>7. /\ pending'.all = RemoveFirst(pending.all, e) /\ pending'.pass = Tail(pending.pass)
      /\ pending'.progressed = TRUE /\ pending'.stage = "gate" /\ pending' \in Passes
  BY <1>1, <1>3, <1>6 DEF Passes
<1>8. /\ actual'[e] = IF e \in app.updates THEN 2 ELSE 1
      /\ \A x \in Entities : x # e => actual'[x] = actual[x]
      /\ actual' \in Records
  BY <1>1, <1>2, <1>3, <1>4, ExerciseAssumption DEF Records, Statuses
<1>9. ExerciseFits'
  BY <1>1, <1>2, <1>3, <1>6, <1>7, <1>8 DEF ExerciseInv, ExerciseFits, AppFits
<1>10. RecordsFit'
  <2>1. Due' = Due
    BY <1>5, <1>6, <1>7 DEF Due
  <2> QED
    BY <1>1, <1>7, <2>1 DEF ExerciseInv, RecordsFit
<1>11. LeftBehindWait'
  BY <1>7 DEF LeftBehindWait
<1>12. ASSUME Passable PROVE ParentsAreSteered'
  <2>1. ASSUME NEW x \in Entities, Remembered(x) PROVE Remembered(x)'
    BY <1>1, <1>4, <1>8, <2>1 DEF Remembered
  <2> QED
    BY <1>1, <1>12, <2>1, AppStays DEF ExerciseInv, ParentsAreSteered, Ready
<1> QED
  BY <1>1, <1>9, <1>10, <1>11, <1>12, AppStays DEF ExerciseInv

(* A pass that resolved nothing leaves entities that wait for each other.  *)
LEMMA PassEndsKeeps == ASSUME ExerciseInv, PassEnds PROVE ExerciseInv'
<1>1. /\ verdict = "running" /\ pending.pass = <<>>
      /\ verdict' = IF pending.all = <<>> THEN "passed"
                    ELSE IF pending.progressed THEN "running" ELSE "unresolved"
      /\ pending' = [pending EXCEPT !.pass = pending.all, !.progressed = FALSE]
      /\ UNCHANGED <<app, created_records, actual>>
  BY DEF PassEnds
<1>2. pending \in Passes /\ pending.stage = "gate"
  BY <1>1 DEF ExerciseInv, ExerciseFits, RecordsFit, Passes
<1>3. /\ pending'.all = pending.all /\ pending'.pass = pending.all
      /\ pending'.progressed = FALSE /\ pending'.stage = "gate" /\ pending' \in Passes
  BY <1>1, <1>2 DEF Passes
<1>4. ExerciseFits'
  BY <1>1, <1>3 DEF ExerciseInv, ExerciseFits, AppFits
<1>5. RecordsFit' /\ LeftBehindWait'
  BY <1>1, <1>2, <1>3 DEF ExerciseInv, RecordsFit, Due, LeftBehindWait
<1>6. ASSUME Passable, pending.all # <<>>, ~pending.progressed PROVE FALSE
  <2> DEFINE S == ToSet(pending.all)
  <2>1. S \subseteq Entities /\ S # {}
    <3>1. pending.all \in Seq(Entities)
      BY <1>2 DEF Passes
    <3>2. 1 \in DOMAIN pending.all
      BY <1>6, <3>1
    <3>3. pending.all[1] \in S
      BY <3>2 DEF ToSet
    <3>4. S \subseteq Entities
      BY <3>1 DEF ToSet
    <3> QED
      BY <3>3, <3>4
  <2>2. \A x \in S : ~Ready(x)
    <3>1. ToSet(pending.pass) = {}
      BY <1>1 DEF ToSet
    <3> QED
      BY <1>2, <1>6, <3>1 DEF ExerciseInv, LeftBehindWait
  <2>3. PICK x \in S : app.deps[x] \cap S = {}
    BY <1>6, <2>1 DEF Passable, Acyclic
  <2>4. app.deps[x] \subseteq Entities
    BY <2>1 DEF ExerciseInv, ExerciseFits, AppFits
  <2>5. \A d \in Entities : created_records[d] = NoRecord <=> d \in S
    BY <1>2 DEF ExerciseInv, RecordsFit, Due
  <2>6. Ready(x)
    BY <2>3, <2>4, <2>5 DEF Ready
  <2> QED
    BY <2>2, <2>6
<1>7. Passable => verdict' \in {"running", "passed"}
  BY <1>1, <1>6
<1>8. Passable => ParentsAreSteered'
  BY <1>1, AppStays DEF ExerciseInv, ParentsAreSteered, Ready, Remembered
<1> QED
  BY <1>1, <1>4, <1>5, <1>7, <1>8, AppStays DEF ExerciseInv

LEMMA ExerciseStep == ExerciseInv /\ [ExerciseNext]_exerciseVars => ExerciseInv'
<1>1. CASE UNCHANGED exerciseVars
  BY <1>1 DEF exerciseVars, ExerciseInv, ExerciseFits, AppFits, RecordsFit, Due, Current,
     LeftBehindWait, Ready, Passable, Acyclic, Gated, Reachable, ParentsAreSteered, Remembered
<1>2. CASE ExerciseNext
  BY <1>2, WaitKeeps, PrerequisitesKeep, SeedKeeps, UpdateKeeps, PassEndsKeeps
     DEF ExerciseNext, exercise_runtime_contracts
<1> QED
  BY <1>1, <1>2

LEMMA ExerciseInvariant == ExerciseSpec => []ExerciseInv
BY ExerciseStart, ExerciseStep, PTL DEF ExerciseSpec

(* An application whose relations have no cycle, and whose gates can be    *)
(* reached, is not failed by the smoke test, however many entities it has, *)
(* in whatever order, and however many statuses (exercise_runtime_contracts*)
(* and ensure_parent_status_gate_prerequisites).                           *)
THEOREM PassableApplicationsPass == ExerciseSpec => []PassableAppsPass
<1>1. ExerciseInv => PassableAppsPass
  BY DEF ExerciseInv, Passable, PassableAppsPass
<1> QED
  BY <1>1, ExerciseInvariant, PTL

(* The types of the test.                                                  *)
LEMMA ExerciseTypes == ExerciseInv => ExerciseTypeOK
<1> SUFFICES ASSUME ExerciseInv PROVE ExerciseTypeOK
  OBVIOUS
<1>1. pending \in Passes
  BY DEF ExerciseInv, ExerciseFits
<1>2. ToSet(pending.all) \subseteq Entities
  BY <1>1, ElementOfSeq DEF Passes, ToSet
<1> QED
  BY <1>2 DEF ExerciseInv, ExerciseFits, AppFits, Records, ExerciseTypeOK

-----------------------------------------------------------------------------
(* The start of the kernel.                                                *)

(* How far the start of a kernel that does not serve yet is at least.      *)
Past(places) == boot # "serving" /\ boot \notin places

Begun == {"down", "checked", "created"}

PackRows == [slug : Packs, born : Nat, edition : Nat]
CommandRows == [{"global", "own"} -> [CommandKeys -> {"none", "shipped", "edited"}]]

StartupFits ==
    /\ prepared \in [schema : {"absent", "tables", "current"}, workspace : BOOLEAN,
                     mapped : BOOLEAN]
    /\ shipped \in [slugs : SUBSET Packs, edition : Nat]
    /\ packs \subseteq PackRows /\ bound \subseteq [slug : Packs, born : Nat]
    /\ commands \in CommandRows

(* What the start has behind it is there.                                  *)
SeedsStand ==
    /\ Past(Begun) => prepared.schema = "current"
    /\ Past(Begun \union {"upgraded"}) => prepared.workspace
    /\ Past(Begun \union {"upgraded", "workspace"}) => Named(DefaultSlug) # {}
    /\ Past(Begun \union {"upgraded", "workspace", "registry", "packs"}) =>
           \A k \in DefaultKeys : commands.global[k] = "shipped"

(* The packs are those of one distribution, each once, and rows are no     *)
(* newer than what is shipped.                                             *)
PacksAreOfOneEdition ==
    /\ \A p, q \in packs : p.edition = q.edition /\ (p.slug = q.slug => p = q)
    /\ \A p \in packs :
          /\ p.born <= p.edition /\ p.edition <= shipped.edition
          /\ p.edition = shipped.edition => {q.slug : q \in packs} = shipped.slugs

(* A workspace is not bound to an id that is yet to be given.              *)
BoundIdsAreGiven ==
    \A b \in bound : /\ b.born <= shipped.edition
                     /\ b.born = shipped.edition => b \in {Id(p) : p \in packs}

StartupInv == StartupFits /\ SeedsStand /\ PacksAreOfOneEdition /\ BoundIdsAreGiven

LEMMA StartupStart == StartupInit => StartupInv
<1> SUFFICES ASSUME StartupInit PROVE StartupInv
  OBVIOUS
<1>1. /\ boot = "down" /\ packs = {} /\ bound = {}
      /\ prepared = [schema |-> "absent", workspace |-> FALSE, mapped |-> FALSE]
      /\ shipped = [slugs |-> Packs, edition |-> 1]
      /\ commands = [global |-> [k \in CommandKeys |-> "none"],
                     own |-> [k \in CommandKeys |-> "none"]]
  BY DEF StartupInit
<1>2. commands \in CommandRows
  BY <1>1 DEF CommandRows
<1>3. StartupFits
  BY <1>1, <1>2 DEF StartupFits
<1>4. SeedsStand
  BY <1>1 DEF SeedsStand, Past, Begun
<1> QED
  BY <1>1, <1>3, <1>4 DEF StartupInv, PacksAreOfOneEdition, BoundIdsAreGiven

(* A synchronization leaves the packs of the distribution, each once, and  *)
(* keeps the ids of those that were there.                                 *)
LEMMA SynchronizedPacks ==
    ASSUME StartupInv, packs' = Synchronized, UNCHANGED shipped
    PROVE  /\ packs' \subseteq PackRows /\ PacksAreOfOneEdition'
           /\ \A p \in packs : p.slug \in shipped.slugs =>
                  \E q \in packs' : q.slug = p.slug /\ Id(q) = Id(p)
           /\ \A q \in packs' : /\ q.edition = shipped.edition
                                /\ Id(q) \in {Id(p) : p \in packs} \/ q.born = shipped.edition
<1> DEFINE kept == {p \in packs : p.slug \in shipped.slugs}
           missing == shipped.slugs \ {p.slug : p \in kept}
           update(p) == [p EXCEPT !.edition = shipped.edition]
           new(s) == [slug |-> s, born |-> shipped.edition, edition |-> shipped.edition]
<1>1. packs' = {update(p) : p \in kept} \cup {new(s) : s \in missing}
  BY DEF Synchronized
<1>2. /\ shipped.slugs \subseteq Packs /\ shipped.edition \in Nat /\ packs \subseteq PackRows
      /\ UNCHANGED shipped
  BY DEF StartupInv, StartupFits
<1>3. ASSUME NEW p \in kept
      PROVE  /\ update(p) \in PackRows /\ update(p).slug = p.slug /\ update(p).born = p.born
             /\ update(p).edition = shipped.edition /\ Id(update(p)) = Id(p)
             /\ p \in packs /\ p.slug \in shipped.slugs
             /\ p.born \in Nat /\ p.born <= shipped.edition
  <2>1. /\ p \in PackRows /\ p.born <= p.edition /\ p.edition <= shipped.edition
        /\ p \in packs /\ p.slug \in shipped.slugs
    BY <1>2, <1>3 DEF StartupInv, PacksAreOfOneEdition
  <2>2. /\ update(p) \in PackRows /\ update(p).slug = p.slug /\ update(p).born = p.born
        /\ update(p).edition = shipped.edition
    BY <1>2, <2>1 DEF PackRows
  <2>3. p.born \in Nat /\ p.born <= shipped.edition
    BY <1>2, <2>1 DEF PackRows
  <2> QED
    BY <2>1, <2>2, <2>3 DEF Id
<1>4. ASSUME NEW s \in missing
      PROVE  /\ new(s) \in PackRows /\ new(s).slug = s /\ new(s).born = shipped.edition
             /\ new(s).edition = shipped.edition /\ s \in shipped.slugs
             /\ \A p \in kept : p.slug # s
  BY <1>2, <1>4 DEF PackRows
<1> HIDE DEF update, new
<1>5. \A q \in packs' : /\ q \in PackRows /\ q.slug \in shipped.slugs
                        /\ q.edition = shipped.edition /\ q.born <= shipped.edition
                        /\ Id(q) \in {Id(p) : p \in packs} \/ q.born = shipped.edition
  <2>1. ASSUME NEW q \in packs', NEW p \in kept, q = update(p)
        PROVE  Id(q) \in {Id(x) : x \in packs}
    BY <1>3, <2>1
  <2> QED
    BY <1>1, <1>2, <1>3, <1>4, <2>1
<1>6. \A p, q \in packs' : p.slug = q.slug => p = q
  <2>1. \A p, q \in kept : p.slug = q.slug => p = q
    BY DEF StartupInv, PacksAreOfOneEdition
  <2> QED
    BY <1>1, <1>3, <1>4, <2>1
<1>7. shipped.slugs \subseteq {q.slug : q \in packs'}
  <2>1. ASSUME NEW s \in shipped.slugs PROVE \E q \in packs' : q.slug = s
    <3>1. CASE s \in missing
      BY <1>1, <1>4, <3>1
    <3>2. CASE s \notin missing
      <4>1. PICK p \in kept : p.slug = s
        BY <2>1, <3>2
      <4> QED
        BY <1>1, <1>3, <4>1
    <3> QED
      BY <3>1, <3>2
  <2> QED
    BY <2>1
<1>8. {q.slug : q \in packs'} = shipped.slugs
  BY <1>5, <1>7
<1>9. PacksAreOfOneEdition'
  BY <1>2, <1>5, <1>6, <1>8 DEF PacksAreOfOneEdition
<1>10. \A p \in packs : p.slug \in shipped.slugs =>
           \E q \in packs' : q.slug = p.slug /\ Id(q) = Id(p)
  BY <1>1, <1>3
<1> QED
  BY <1>5, <1>9, <1>10

(* The ids that were given stay given as long as they are of this edition. *)
LEMMA GivenIdsStay ==
    ASSUME StartupInv, packs' = Synchronized, UNCHANGED shipped,
           NEW b \in {Id(p) : p \in packs}
    PROVE  /\ b \in [slug : Packs, born : Nat] /\ b.born <= shipped.edition
           /\ b.born = shipped.edition => b \in {Id(p) : p \in packs'}
<1>1. PICK p \in packs : b = Id(p)
  OBVIOUS
<1>2. /\ p \in PackRows /\ shipped.edition \in Nat
      /\ p.born <= p.edition /\ p.edition <= shipped.edition
      /\ p.edition = shipped.edition => {q.slug : q \in packs} = shipped.slugs
  BY DEF StartupInv, StartupFits, PacksAreOfOneEdition
<1>3. /\ b \in [slug : Packs, born : Nat] /\ b.born = p.born
      /\ p.born \in Nat /\ p.edition \in Nat
  BY <1>1, <1>2 DEF PackRows, Id
<1>4. ASSUME b.born = shipped.edition PROVE b \in {Id(q) : q \in packs'}
  <2>1. p.slug \in shipped.slugs
    BY <1>2, <1>3, <1>4
  <2>2. PICK q \in packs' : Id(q) = Id(p)
    BY <2>1, SynchronizedPacks
  <2> QED
    BY <1>1, <2>2
<1> QED
  BY <1>2, <1>3, <1>4

(* A synchronization, by a start or by a request.                          *)
LEMMA SynchronizingKeeps ==
    ASSUME StartupInv, packs' = Synchronized, UNCHANGED shipped,
           bound' = bound \/ bound' \subseteq {Id(p) : p \in packs}
    PROVE  /\ packs' \subseteq PackRows /\ bound' \subseteq [slug : Packs, born : Nat]
           /\ PacksAreOfOneEdition' /\ BoundIdsAreGiven'
<1>1. packs' \subseteq PackRows /\ PacksAreOfOneEdition'
  BY SynchronizedPacks
<1>2. ASSUME NEW b \in bound'
      PROVE  /\ b \in [slug : Packs, born : Nat] /\ b.born <= shipped.edition
             /\ b.born = shipped.edition => b \in {Id(p) : p \in packs'}
  <2>1. CASE b \in {Id(p) : p \in packs}
    BY <2>1, GivenIdsStay
  <2>2. CASE b \notin {Id(p) : p \in packs}
    <3>1. b \in bound
      BY <1>2, <2>2
    <3> QED
      BY <2>2, <3>1 DEF StartupInv, StartupFits, BoundIdsAreGiven
  <2> QED
    BY <2>1, <2>2
<1> QED
  BY <1>1, <1>2 DEF BoundIdsAreGiven

(* A step that leaves packs and bindings alone.                            *)
LEMMA PacksKept ==
    ASSUME StartupInv, UNCHANGED <<packs, bound, shipped>>
    PROVE  /\ packs' \subseteq PackRows /\ bound' \subseteq [slug : Packs, born : Nat]
           /\ shipped' \in [slugs : SUBSET Packs, edition : Nat]
           /\ PacksAreOfOneEdition' /\ BoundIdsAreGiven'
BY DEF StartupInv, StartupFits, PacksAreOfOneEdition, BoundIdsAreGiven

(* While the kernel serves nothing is promised of what it seeded.          *)
LEMMA ServingKeeps ==
    ASSUME StartupInv, boot = "serving", UNCHANGED <<boot, prepared, shipped>>,
           commands' \in CommandRows,
           packs' \subseteq PackRows, bound' \subseteq [slug : Packs, born : Nat],
           PacksAreOfOneEdition', BoundIdsAreGiven'
    PROVE  StartupInv'
<1>1. StartupFits'
  BY DEF StartupInv, StartupFits
<1>2. SeedsStand'
  BY DEF SeedsStand, Past
<1> QED
  BY <1>1, <1>2 DEF StartupInv

(* The requests to palette commands.                                       *)
LEMMA CommandsFit ==
    ASSUME StartupInv, NEW k \in CommandKeys,
           \/ create_palette_command(k) \/ delete_palette_command(k)
           \/ \E scope \in {"global", "own"} : patch_palette_command(scope, k)
    PROVE  /\ commands' \in CommandRows /\ boot = "serving"
           /\ UNCHANGED <<boot, prepared, shipped, packs, bound>>
<1>1. commands \in CommandRows
  BY DEF StartupInv, StartupFits
<1>2. CASE create_palette_command(k) \/ delete_palette_command(k)
  BY <1>1, <1>2 DEF create_palette_command, delete_palette_command, Edit, CommandRows
<1>3. CASE \E scope \in {"global", "own"} : patch_palette_command(scope, k)
  <2>1. PICK scope \in {"global", "own"} : patch_palette_command(scope, k)
    BY <1>3
  <2>2. PICK to \in {"global", "own"}, key \in CommandKeys :
            commands' = [[commands EXCEPT ![scope][k] = "none"] EXCEPT ![to][key] = "edited"]
    BY <2>1 DEF patch_palette_command
  <2>3. [commands EXCEPT ![scope][k] = "none"] \in CommandRows
    BY <1>1 DEF CommandRows
  <2>4. commands' \in CommandRows
    BY <2>2, <2>3 DEF CommandRows
  <2> QED
    BY <2>1, <2>4 DEF patch_palette_command, Edit
<1> QED
  BY <1>2, <1>3

LEMMA StartupStep == StartupInv /\ [StartupNext]_startupVars => StartupInv'
<1> SUFFICES ASSUME StartupInv, [StartupNext]_startupVars PROVE StartupInv'
  OBVIOUS
<1> USE DEF seedVars
<1>1. CASE _validate_runtime_repo_map_startup
  <2>1. boot' = "checked" /\ UNCHANGED <<prepared, registries, packs, bound, commands, shipped>>
    BY <1>1 DEF _validate_runtime_repo_map_startup, Goto
  <2>2. SeedsStand'
    BY <2>1 DEF SeedsStand, Past, Begun
  <2> QED
    BY <2>1, <2>2, PacksKept DEF StartupInv, StartupFits
<1>2. CASE init_db
  <2>1. /\ boot' \in {"created", "upgraded", "down"}
        /\ boot' = "upgraded" => prepared'.schema = "current"
        /\ prepared' = prepared \/ prepared' = [prepared EXCEPT !.schema = "tables"]
        /\ UNCHANGED <<registries, packs, bound, commands, shipped>>
    BY <1>2 DEF init_db
  <2>2. SeedsStand'
    BY <2>1 DEF SeedsStand, Past, Begun
  <2> QED
    BY <2>1, <2>2, PacksKept DEF StartupInv, StartupFits
<1>3. CASE _apply_dev_schema_upgrades
  <2>1. /\ boot' = "upgraded" /\ prepared' = [prepared EXCEPT !.schema = "current"]
        /\ UNCHANGED <<registries, packs, bound, commands, shipped>>
    BY <1>3 DEF _apply_dev_schema_upgrades, Goto
  <2>2. SeedsStand'
    BY <2>1 DEF SeedsStand, Past, Begun, StartupInv, StartupFits
  <2> QED
    BY <2>1, <2>2, PacksKept DEF StartupInv, StartupFits
<1>4. CASE ensure_default_workspace
  <2>1. /\ boot = "upgraded" /\ boot' = "workspace"
        /\ prepared' = [prepared EXCEPT !.workspace = TRUE]
        /\ UNCHANGED <<registries, packs, bound, commands, shipped>>
    BY <1>4 DEF ensure_default_workspace, Goto
  <2>2. SeedsStand'
    BY <2>1 DEF SeedsStand, Past, Begun, StartupInv, StartupFits
  <2> QED
    BY <2>1, <2>2, PacksKept DEF StartupInv, StartupFits
<1>5. CASE ensure_seed_default_registry
  <2>1. /\ boot = "workspace" /\ boot' = "registry"
        /\ UNCHANGED <<prepared, packs, bound, commands, shipped>>
        /\ IF Named(DefaultSlug) # {} THEN UNCHANGED <<registries, spent>>
           ELSE Insert(DefaultSlug, "seed")
    BY <1>5 DEF ensure_seed_default_registry, Goto
  <2>2. Named(DefaultSlug)' # {}
    <3>1. CASE Named(DefaultSlug) # {}
      BY <2>1, <3>1 DEF Named
    <3>2. CASE Named(DefaultSlug) = {}
      <4>1. [id |-> spent.rows + 1, slug |-> DefaultSlug, spec |-> "seed"] \in registries'
        BY <2>1, <3>2 DEF Insert
      <4> QED
        BY <4>1 DEF Named
    <3> QED
      BY <3>1, <3>2
  <2>3. SeedsStand'
    BY <2>1, <2>2 DEF SeedsStand, Past, Begun, StartupInv
  <2> QED
    BY <2>1, <2>3, PacksKept DEF StartupInv, StartupFits
<1>6. CASE ensure_runtime_context_pack_artifacts
  <2>1. /\ boot = "registry" /\ boot' = "packs" /\ packs' = Synchronized
        /\ UNCHANGED <<prepared, registries, bound, commands, shipped>>
    BY <1>6 DEF ensure_runtime_context_pack_artifacts, Goto
  <2>2. SeedsStand'
    BY <2>1 DEF SeedsStand, Past, Begun, StartupInv, Named
  <2>3. StartupFits' /\ PacksAreOfOneEdition' /\ BoundIdsAreGiven'
    BY <2>1, SynchronizingKeeps DEF StartupInv, StartupFits
  <2> QED
    BY <2>2, <2>3 DEF StartupInv
<1>7. CASE ensure_default_palette_commands
  <2>1. /\ boot = "packs" /\ boot' = "seeded"
        /\ commands' = [commands EXCEPT !.global =
               [k \in CommandKeys |-> IF k \in DefaultKeys THEN "shipped" ELSE @[k]]]
        /\ UNCHANGED <<prepared, registries, packs, bound, shipped>>
    BY <1>7 DEF ensure_default_palette_commands, Goto
  <2>2. commands' \in CommandRows /\ \A k \in DefaultKeys : commands'.global[k] = "shipped"
    BY <2>1, SeedsAreKnown DEF StartupInv, StartupFits, CommandRows
  <2>3. SeedsStand'
    BY <2>1, <2>2 DEF SeedsStand, Past, Begun, StartupInv, Named
  <2> QED
    BY <2>1, <2>2, <2>3, PacksKept DEF StartupInv, StartupFits
<1>8. CASE StartWorkers \/ Serve
  <2>1. /\ boot' = "serving" \/ (boot = "seeded" /\ boot' = "working")
        /\ UNCHANGED <<prepared, registries, packs, bound, commands, shipped>>
    BY <1>8 DEF StartWorkers, Serve, Goto
  <2>2. SeedsStand'
    BY <2>1 DEF SeedsStand, Past, Begun, StartupInv, Named
  <2> QED
    BY <2>1, <2>2, PacksKept DEF StartupInv, StartupFits
<1>9. CASE KernelEnds
  <2>1. boot' = "down" /\ UNCHANGED <<prepared, registries, packs, bound, commands, shipped>>
    BY <1>9 DEF KernelEnds
  <2>2. SeedsStand'
    BY <2>1 DEF SeedsStand, Past, Begun
  <2> QED
    BY <2>1, <2>2, PacksKept DEF StartupInv, StartupFits
<1>10. CASE PrepareHost
  <2>1. /\ boot \in {"down", "checked"}
        /\ \/ prepared' = [prepared EXCEPT !.schema = "current"]
           \/ prepared' = [prepared EXCEPT !.mapped = TRUE]
        /\ UNCHANGED <<boot, registries, packs, bound, commands, shipped>>
    BY <1>10 DEF PrepareHost
  <2>2. SeedsStand'
    BY <2>1 DEF SeedsStand, Past, Begun
  <2> QED
    BY <2>1, <2>2, PacksKept DEF StartupInv, StartupFits
<1>11. CASE Distribute
  <2>1. /\ shipped'.slugs \subseteq Packs /\ shipped'.edition = shipped.edition + 1
        /\ shipped' \in [slugs : SUBSET Packs, edition : Nat]
        /\ UNCHANGED <<boot, prepared, registries, packs, bound, commands>>
    BY <1>11 DEF Distribute, StartupInv, StartupFits
  <2>2. shipped.edition \in Nat /\ \A p \in packs : p.edition \in Nat
    BY DEF StartupInv, StartupFits, PackRows
  <2>3. \A b \in bound : b.born \in Nat
    BY DEF StartupInv, StartupFits
  <2>4. StartupFits' /\ SeedsStand'
    BY <2>1 DEF StartupInv, StartupFits, SeedsStand, Past, Named
  <2>5. PacksAreOfOneEdition'
    BY <2>1, <2>2 DEF StartupInv, PacksAreOfOneEdition
  <2>6. BoundIdsAreGiven'
    BY <2>1, <2>2, <2>3 DEF StartupInv, BoundIdsAreGiven
  <2> QED
    BY <2>4, <2>5, <2>6 DEF StartupInv
<1>12. CASE \/ \E op \in {"create", "update", "delete", "read"}, slug \in Slugs : Visit(op, slug)
            \/ \E v \in DOMAIN visits :
                  \/ get_registry_spec_by_slug(v) \/ FindRow(v)
                  \/ upsert_registry_spec(v) \/ artifact_registries_delete(v)
  <2>1. boot = "serving" /\ UNCHANGED <<boot, prepared, packs, bound, commands, shipped>>
    BY <1>12 DEF Visit, get_registry_spec_by_slug, FindRow, upsert_registry_spec,
       artifact_registries_delete, Reached
  <2> QED
    BY <2>1, PacksKept, ServingKeeps DEF StartupInv, StartupFits
<1>13. CASE \E k \in CommandKeys :
               \/ create_palette_command(k) \/ delete_palette_command(k)
               \/ \E scope \in {"global", "own"} : patch_palette_command(scope, k)
  BY <1>13, CommandsFit, PacksKept, ServingKeeps
<1>14. CASE list_context_packs \/ patch_context_pack_bindings
  <2>1. /\ boot = "serving" /\ UNCHANGED <<boot, prepared, commands, shipped>>
        /\ packs' = Synchronized
        /\ bound' = bound \/ bound' \subseteq {Id(p) : p \in packs}
    BY <1>14 DEF list_context_packs, patch_context_pack_bindings, Edit
  <2> QED
    BY <2>1, SynchronizingKeeps, ServingKeeps DEF StartupInv, StartupFits
<1>15. CASE _bootstrap_ai_agent_with_retry \/ UNCHANGED startupVars
  <2>1. UNCHANGED <<boot, prepared, registries, packs, bound, commands, shipped>>
    BY <1>15 DEF _bootstrap_ai_agent_with_retry, startupVars
  <2>2. SeedsStand'
    BY <2>1 DEF SeedsStand, Past, StartupInv, Named
  <2> QED
    BY <2>1, <2>2, PacksKept DEF StartupInv, StartupFits
<1> QED
  BY <1>1, <1>2, <1>3, <1>4, <1>5, <1>6, <1>7, <1>8, <1>9, <1>10, <1>11, <1>12, <1>13,
     <1>14, <1>15 DEF StartupNext

(* What the workspace is served survives a synchronization.                *)
LEMMA PromptsAreKept ==
    ASSUME StartupInv, [StartupNext]_startupVars
    PROVE  PromptsKeepTheirPacks
<1> USE DEF seedVars
<1>1. packs' = packs \/ (packs' = Synchronized /\ UNCHANGED shipped)
  BY DEF StartupNext, startupVars, _validate_runtime_repo_map_startup, init_db,
     _apply_dev_schema_upgrades, ensure_default_workspace, ensure_seed_default_registry,
     ensure_runtime_context_pack_artifacts, ensure_default_palette_commands, StartWorkers,
     _bootstrap_ai_agent_with_retry, Serve, KernelEnds, PrepareHost, Distribute, Visit,
     get_registry_spec_by_slug, FindRow, upsert_registry_spec, artifact_registries_delete,
     create_palette_command, delete_palette_command, patch_palette_command, Edit,
     list_context_packs, patch_context_pack_bindings
<1>2. CASE packs' = packs
  BY <1>2 DEF PromptsKeepTheirPacks, resolve_bound_context_pack_artifacts
<1>3. CASE packs' = Synchronized /\ UNCHANGED shipped
  <2> SUFFICES ASSUME bound' = bound, NEW p \in resolve_bound_context_pack_artifacts,
                      \E q \in packs' : q.slug = p.slug
               PROVE  \E q \in resolve_bound_context_pack_artifacts' : Id(q) = Id(p)
    BY DEF PromptsKeepTheirPacks
  <2>1. p \in packs
    BY DEF resolve_bound_context_pack_artifacts
  <2>2. /\ PacksAreOfOneEdition'
        /\ \A q \in packs' : /\ q.edition = shipped.edition
                             /\ Id(q) \in {Id(x) : x \in packs} \/ q.born = shipped.edition
    BY <1>3, SynchronizedPacks
  <2>3. p.slug \in shipped.slugs
    <3>1. PICK q \in packs' : q.slug = p.slug
      OBVIOUS
    <3>2. q.edition = shipped.edition => {x.slug : x \in packs'} = shipped.slugs
      BY <1>3, <2>2 DEF PacksAreOfOneEdition
    <3>3. q.edition = shipped.edition
      BY <2>2
    <3>4. p.slug \in {x.slug : x \in packs'}
      BY <3>1
    <3> QED
      BY <3>2, <3>3, <3>4
  <2>4. PICK q \in packs' : Id(q) = Id(p)
    BY <1>3, <2>1, <2>3, SynchronizedPacks
  <2>5. CASE {x \in packs : Id(x) \in bound} # {}
    <3>1. Id(p) \in bound
      BY <2>5 DEF resolve_bound_context_pack_artifacts
    <3> QED
      BY <2>4, <3>1 DEF resolve_bound_context_pack_artifacts
  <2>6. CASE {x \in packs : Id(x) \in bound} = {}
    <3>1. ASSUME NEW x \in packs', Id(x) \in bound PROVE FALSE
      <4>1. Id(x) \notin {Id(y) : y \in packs}
        BY <2>6, <3>1
      <4>2. x.born = shipped.edition /\ Id(x).born = x.born
        BY <2>2, <4>1 DEF Id
      <4> QED
        BY <3>1, <4>1, <4>2 DEF StartupInv, BoundIdsAreGiven
    <3>2. {x \in packs' : Id(x)' \in bound'} = {}
      BY <3>1 DEF Id
    <3> QED
      BY <2>4, <3>2 DEF resolve_bound_context_pack_artifacts
  <2> QED
    BY <2>5, <2>6
<1> QED
  BY <1>1, <1>2, <1>3

(* When the kernel begins to serve, its defaults are there, whatever the   *)
(* lives before changed and wherever they broke off; and no                *)
(* synchronization takes a pack from the prompts that stays shipped, for   *)
(* any packs, registries and commands (kernel_app.py, context_packs.py).   *)
THEOREM SeedsStayWhole == StartupSpec => SeedsAreWholeAndKept
<1>1. StartupInv /\ [StartupNext]_startupVars => ServesItsDefaults
  <2> SUFFICES ASSUME StartupInv, [StartupNext]_startupVars,
                      boot # "serving", boot' = "serving"
               PROVE  /\ Past(Begun \union {"upgraded", "workspace", "registry", "packs"})
                      /\ PacksAreOfOneEdition
    BY DEF ServesItsDefaults, StartupInv, SeedsStand, Past, PacksAreOfOneEdition
  <2>1. boot = "working"
    BY DEF seedVars, StartupNext, startupVars, Goto, _validate_runtime_repo_map_startup, init_db,
       _apply_dev_schema_upgrades, ensure_default_workspace, ensure_seed_default_registry,
       ensure_runtime_context_pack_artifacts, ensure_default_palette_commands, StartWorkers,
       _bootstrap_ai_agent_with_retry, Serve, KernelEnds, PrepareHost, Distribute, Visit,
       get_registry_spec_by_slug, FindRow, upsert_registry_spec, artifact_registries_delete,
       create_palette_command, delete_palette_command, patch_palette_command, Edit,
       list_context_packs, patch_context_pack_bindings
  <2> QED
    BY <2>1 DEF Past, Begun, StartupInv
<1>2. StartupInv /\ [StartupNext]_startupVars =>
          [ServesItsDefaults /\ PromptsKeepTheirPacks]_startupVars
  BY <1>1, PromptsAreKept
<1>3. StartupSpec => []StartupInv
  BY StartupStart, StartupStep, PTL DEF StartupSpec
<1> QED
  BY <1>2, <1>3, PTL DEF StartupSpec, SeedsAreWholeAndKept

(* Where the kernel is, the rows of its registries, and the editions of    *)
(* its packs.                                                              *)
BootPlaces == {"down", "checked", "created", "upgraded", "workspace", "registry", "packs",
               "seeded", "working", "serving"}

KernelFits ==
    /\ config \in [autoCreate : BOOLEAN, strict : BOOLEAN] /\ boot \in BootPlaces
    /\ bootstrap.tries \in 0..MaxAttempts
    /\ bootstrap.outcome = "trying" => bootstrap.tries < MaxAttempts

RegistryRows == [id : Nat \ {0}, slug : Slugs, spec : {"seed", "user"}]
VisitRows == [op : {"create", "update", "delete", "read"}, slug : Slugs, target : Nat,
              at : {"look", "find", "write", "done"}]

RegistriesFit ==
    /\ spent \in [edits : Nat, ends : Nat, rows : Nat]
    /\ registries \subseteq RegistryRows /\ \A r \in registries : r.id <= spent.rows
    /\ visits \in Seq(VisitRows) /\ \A v \in DOMAIN visits : visits[v].target <= spent.rows

EditionsFit ==
    /\ shipped.edition \in 1..MaxEditions
    /\ \A p \in packs : p.born \in 1..MaxEditions /\ p.edition \in 1..MaxEditions
    /\ \A b \in bound : b.born \in 1..MaxEditions

StartupRowsFit == KernelFits /\ RegistriesFit /\ EditionsFit

LEMMA StartupRowsStart == StartupInit => StartupRowsFit
<1> SUFFICES ASSUME StartupInit PROVE StartupRowsFit
  OBVIOUS
<1>1. KernelFits
  BY StartupBounds DEF StartupInit, KernelFits, BootPlaces
<1>2. RegistriesFit
  <2>1. visits = <<>> /\ registries = {} /\ spent = [edits |-> 0, ends |-> 0, rows |-> 0]
    BY DEF StartupInit
  <2> QED
    BY <2>1 DEF RegistriesFit
<1>3. EditionsFit
  BY StartupBounds DEF StartupInit, EditionsFit
<1> QED
  BY <1>1, <1>2, <1>3 DEF StartupRowsFit

LEMMA KernelStep == KernelFits /\ [StartupNext]_startupVars => KernelFits'
<1> SUFFICES ASSUME KernelFits, [StartupNext]_startupVars PROVE KernelFits'
  OBVIOUS
<1> USE DEF seedVars
<1>1. config' = config
  BY DEF StartupNext, startupVars, _validate_runtime_repo_map_startup, init_db,
     _apply_dev_schema_upgrades, ensure_default_workspace, ensure_seed_default_registry,
     ensure_runtime_context_pack_artifacts, ensure_default_palette_commands, StartWorkers,
     _bootstrap_ai_agent_with_retry, Serve, KernelEnds, PrepareHost, Distribute, Visit,
     get_registry_spec_by_slug, FindRow, upsert_registry_spec, artifact_registries_delete,
     create_palette_command, delete_palette_command, patch_palette_command, Edit,
     list_context_packs, patch_context_pack_bindings
<1>2. boot' = boot \/ boot' \in BootPlaces
  BY DEF BootPlaces, StartupNext, startupVars, Goto, _validate_runtime_repo_map_startup, init_db,
     _apply_dev_schema_upgrades, ensure_default_workspace, ensure_seed_default_registry,
     ensure_runtime_context_pack_artifacts, ensure_default_palette_commands, StartWorkers,
     _bootstrap_ai_agent_with_retry, Serve, KernelEnds, PrepareHost, Distribute, Visit,
     get_registry_spec_by_slug, FindRow, upsert_registry_spec, artifact_registries_delete,
     create_palette_command, delete_palette_command, patch_palette_command, Edit,
     list_context_packs, patch_context_pack_bindings
<1>3. \/ UNCHANGED bootstrap \/ StartWorkers \/ KernelEnds \/ _bootstrap_ai_agent_with_retry
  BY DEF StartupNext, startupVars, _validate_runtime_repo_map_startup, init_db,
     _apply_dev_schema_upgrades, ensure_default_workspace, ensure_seed_default_registry,
     ensure_runtime_context_pack_artifacts, ensure_default_palette_commands,
     Serve, PrepareHost, Distribute, Visit,
     get_registry_spec_by_slug, FindRow, upsert_registry_spec, artifact_registries_delete,
     create_palette_command, delete_palette_command, patch_palette_command, Edit,
     list_context_packs, patch_context_pack_bindings
<1>4. /\ bootstrap'.tries \in 0..MaxAttempts
      /\ bootstrap'.outcome = "trying" => bootstrap'.tries < MaxAttempts
  <2>1. CASE UNCHANGED bootstrap
    BY <2>1 DEF KernelFits
  <2>2. CASE StartWorkers \/ KernelEnds
    BY <2>2, StartupBounds DEF StartWorkers, KernelEnds
  <2>3. CASE _bootstrap_ai_agent_with_retry
    <3>1. PICK outcome \in {"succeeded", "unsupported", "retryable_failure"} :
              bootstrap' = [tries |-> bootstrap.tries + 1,
                            outcome |-> IF outcome # "retryable_failure" THEN outcome
                                        ELSE IF bootstrap.tries + 1 < MaxAttempts THEN "trying"
                                        ELSE "given_up"]
      BY <2>3 DEF _bootstrap_ai_agent_with_retry
    <3>2. bootstrap.tries \in 0..MaxAttempts /\ bootstrap.tries < MaxAttempts
      BY <2>3 DEF _bootstrap_ai_agent_with_retry, KernelFits
    <3> QED
      BY <3>1, <3>2, StartupBounds
  <2> QED
    BY <1>3, <2>1, <2>2, <2>3
<1> QED
  BY <1>1, <1>2, <1>4 DEF KernelFits

(* A new row of the registries.                                            *)
LEMMA InsertionFits ==
    ASSUME RegistriesFit, NEW slug \in Slugs, NEW spec \in {"seed", "user"}, Insert(slug, spec)
    PROVE  /\ spent' \in [edits : Nat, ends : Nat, rows : Nat] /\ spent'.rows = spent.rows + 1
           /\ registries' \subseteq RegistryRows /\ \A r \in registries' : r.id <= spent'.rows
<1>1. /\ spent' = [spent EXCEPT !.rows = spent.rows + 1]
      /\ registries' = registries \cup {[id |-> spent.rows + 1, slug |-> slug, spec |-> spec]}
  BY DEF Insert
<1>2. spent \in [edits : Nat, ends : Nat, rows : Nat] /\ registries \subseteq RegistryRows
  BY DEF RegistriesFit
<1>3. spent' \in [edits : Nat, ends : Nat, rows : Nat] /\ spent'.rows = spent.rows + 1
  BY <1>1, <1>2
<1>4. [id |-> spent.rows + 1, slug |-> slug, spec |-> spec] \in RegistryRows
  BY <1>2 DEF RegistryRows
<1>5. \A r \in registries : r.id \in Nat /\ r.id <= spent.rows
  BY <1>2 DEF RegistriesFit, RegistryRows
<1> QED
  BY <1>1, <1>2, <1>3, <1>4, <1>5

(* A request goes on, or is over.                                          *)
LEMMA VisitGoesOn ==
    ASSUME RegistriesFit, NEW v \in DOMAIN visits, NEW at \in {"look", "find", "write", "done"},
           NEW target \in Nat, target <= spent.rows,
           visits' = [visits EXCEPT ![v] = [@ EXCEPT !.at = at, !.target = target]]
    PROVE  visits' \in Seq(VisitRows) /\ \A w \in DOMAIN visits' : visits'[w].target <= spent.rows
<1>1. visits \in Seq(VisitRows) /\ \A w \in DOMAIN visits : visits[w].target <= spent.rows
  BY DEF RegistriesFit
<1>2. visits[v] \in VisitRows
  BY <1>1
<1>3. [visits[v] EXCEPT !.at = at, !.target = target] \in VisitRows
  BY <1>2 DEF VisitRows
<1>4. [visits[v] EXCEPT !.at = at, !.target = target].target = target
  BY <1>2 DEF VisitRows
<1> QED
  BY <1>1, <1>3, <1>4

LEMMA RegistriesStep == RegistriesFit /\ [StartupNext]_startupVars => RegistriesFit'
<1> SUFFICES ASSUME RegistriesFit, [StartupNext]_startupVars PROVE RegistriesFit'
  OBVIOUS
<1> USE DEF seedVars
<1>0. /\ spent \in [edits : Nat, ends : Nat, rows : Nat]
      /\ registries \subseteq RegistryRows /\ \A r \in registries : r.id <= spent.rows
      /\ visits \in Seq(VisitRows) /\ \A v \in DOMAIN visits : visits[v].target <= spent.rows
  BY DEF RegistriesFit
<1>a. \A v \in DOMAIN visits : visits[v] \in VisitRows
  BY <1>0
<1>1. CASE ensure_seed_default_registry
  <2>1. UNCHANGED visits
    BY <1>1 DEF ensure_seed_default_registry
  <2>2. CASE UNCHANGED <<registries, spent>>
    BY <1>0, <2>1, <2>2 DEF RegistriesFit
  <2>3. CASE Insert(DefaultSlug, "seed")
    <3>1. /\ spent' \in [edits : Nat, ends : Nat, rows : Nat] /\ spent'.rows = spent.rows + 1
          /\ registries' \subseteq RegistryRows /\ \A r \in registries' : r.id <= spent'.rows
      BY <2>3, InsertionFits, SeedsAreKnown
    <3>2. \A v \in DOMAIN visits : visits[v].target \in Nat
      BY <1>0, <1>a DEF VisitRows
    <3> QED
      BY <1>0, <2>1, <3>1, <3>2 DEF RegistriesFit
  <2> QED
    BY <1>1, <2>2, <2>3 DEF ensure_seed_default_registry
<1>2. CASE KernelEnds
  <2>1. /\ spent' = [spent EXCEPT !.ends = spent.ends + 1] /\ UNCHANGED registries
        /\ visits' = [v \in DOMAIN visits |-> [visits[v] EXCEPT !.at = "done"]]
    BY <1>2 DEF KernelEnds
  <2>2. spent' \in [edits : Nat, ends : Nat, rows : Nat] /\ spent'.rows = spent.rows
    BY <1>0, <2>1
  <2>3. \A v \in DOMAIN visits : /\ [visits[v] EXCEPT !.at = "done"] \in VisitRows
                                 /\ [visits[v] EXCEPT !.at = "done"].target = visits[v].target
    BY <1>0, <1>a DEF VisitRows
  <2>4. DOMAIN visits = 1..Len(visits) /\ Len(visits) \in Nat
    BY <1>0
  <2>5. visits' \in Seq(VisitRows)
    <3>1. visits' \in [1..Len(visits) -> VisitRows]
      BY <2>1, <2>3, <2>4
    <3> QED
      BY <2>4, <3>1
  <2> QED
    BY <1>0, <2>1, <2>2, <2>3, <2>5 DEF RegistriesFit
<1>3. ASSUME NEW op \in {"create", "update", "delete", "read"}, NEW slug \in Slugs, Visit(op, slug)
      PROVE  RegistriesFit'
  <2> DEFINE new == [op |-> op, slug |-> slug, target |-> 0,
                     at |-> IF op = "delete" THEN "find" ELSE "look"]
  <2>1. visits' = Append(visits, new) /\ UNCHANGED <<registries, spent>>
    BY <1>3 DEF Visit
  <2>2. new \in VisitRows /\ new.target = 0
    BY DEF VisitRows
  <2> HIDE DEF new
  <2>3. visits' \in Seq(VisitRows)
    BY <1>0, <2>1, <2>2
  <2>4. \A v \in DOMAIN visits' : visits'[v] = new \/ (v \in DOMAIN visits /\ visits'[v] = visits[v])
    BY <1>0, <2>1, <2>2
  <2>5. \A v \in DOMAIN visits' : visits'[v].target <= spent.rows
    BY <1>0, <2>2, <2>4
  <2> QED
    BY <1>0, <2>1, <2>3, <2>5 DEF RegistriesFit
<1>4. ASSUME NEW v \in DOMAIN visits, get_registry_spec_by_slug(v) \/ FindRow(v)
      PROVE  RegistriesFit'
  <2>1. UNCHANGED <<registries, spent>>
    BY <1>4 DEF get_registry_spec_by_slug, FindRow
  <2>2. visits[v] \in VisitRows /\ visits[v].target \in Nat /\ visits[v].target <= spent.rows
    BY <1>0, <1>a DEF VisitRows
  <2>3. PICK at \in {"look", "find", "write", "done"}, target \in Nat :
            /\ target <= spent.rows
            /\ visits' = [visits EXCEPT ![v] = [@ EXCEPT !.at = at, !.target = target]]
    <3>1. ASSUME NEW at, visits' = [visits EXCEPT ![v].at = at]
          PROVE  visits' = [visits EXCEPT ![v] = [@ EXCEPT !.at = at, !.target = visits[v].target]]
      BY <1>0, <2>2, <3>1 DEF VisitRows
    <3>2. CASE get_registry_spec_by_slug(v)
      BY <2>2, <3>1, <3>2 DEF get_registry_spec_by_slug
    <3>3. CASE FindRow(v)
      <4>1. CASE \E r \in Named(visits[v].slug) :
                    visits' = [visits EXCEPT ![v].at = "write", ![v].target = r.id]
        <5>1. PICK r \in registries : visits' = [visits EXCEPT ![v].at = "write", ![v].target = r.id]
          BY <4>1 DEF Named
        <5>2. r.id \in Nat /\ r.id <= spent.rows
          BY <1>0 DEF RegistryRows
        <5> QED
          BY <5>1, <5>2
      <4>2. CASE visits' = [visits EXCEPT ![v].at =
                               IF visits[v].op = "delete" THEN "done" ELSE "write"]
        BY <2>2, <3>1, <4>2
      <4> QED
        BY <3>3, <4>1, <4>2 DEF FindRow
    <3> QED
      BY <1>4, <3>2, <3>3
  <2>4. visits' \in Seq(VisitRows) /\ \A w \in DOMAIN visits' : visits'[w].target <= spent.rows
    BY <2>3, VisitGoesOn
  <2> QED
    BY <1>0, <2>1, <2>4 DEF RegistriesFit
<1>5. ASSUME NEW v \in DOMAIN visits, upsert_registry_spec(v) \/ artifact_registries_delete(v)
      PROVE  RegistriesFit'
  <2>1. visits[v] \in VisitRows /\ visits[v].target \in Nat /\ visits[v].target <= spent.rows
    BY <1>0, <1>a DEF VisitRows
  <2>2. visits' = [visits EXCEPT ![v] = [@ EXCEPT !.at = "done", !.target = visits[v].target]]
    <3>1. visits' = [visits EXCEPT ![v].at = "done"]
      BY <1>5 DEF upsert_registry_spec, artifact_registries_delete
    <3> QED
      BY <1>0, <2>1, <3>1 DEF VisitRows
  <2>3. visits' \in Seq(VisitRows) /\ \A w \in DOMAIN visits' : visits'[w].target <= spent.rows
    BY <2>1, <2>2, VisitGoesOn
  <2> DEFINE spec == IF visits[v].op = "read" THEN "seed" ELSE "user"
  <2>4. CASE Insert(visits[v].slug, spec)
    <3>1. visits[v].slug \in Slugs /\ spec \in {"seed", "user"}
      BY <2>1 DEF VisitRows
    <3>2. /\ spent' \in [edits : Nat, ends : Nat, rows : Nat] /\ spent'.rows = spent.rows + 1
          /\ registries' \subseteq RegistryRows /\ \A r \in registries' : r.id <= spent'.rows
      BY <2>4, <3>1, InsertionFits
    <3>3. \A w \in DOMAIN visits' : visits'[w] \in VisitRows
      BY <2>3
    <3>4. \A w \in DOMAIN visits' : visits'[w].target \in Nat
      BY <3>3 DEF VisitRows
    <3> QED
      BY <1>0, <2>3, <3>2, <3>4 DEF RegistriesFit
  <2>5. CASE /\ UNCHANGED spent
             /\ registries' = {IF r.id = visits[v].target THEN [r EXCEPT !.spec = spec] ELSE r
                                  : r \in registries}
    <3>1. ASSUME NEW r \in registries
          PROVE  [r EXCEPT !.spec = spec] \in RegistryRows /\ [r EXCEPT !.spec = spec].id = r.id
      BY <1>0 DEF RegistryRows
    <3>2. registries' \subseteq RegistryRows /\ \A r \in registries' : r.id <= spent.rows
      BY <1>0, <2>5, <3>1
    <3> QED
      BY <1>0, <2>3, <2>5, <3>2 DEF RegistriesFit
  <2>6. CASE UNCHANGED spent /\ registries' \subseteq registries
    BY <1>0, <2>3, <2>6 DEF RegistriesFit
  <2> QED
    BY <1>5, <2>4, <2>5, <2>6 DEF upsert_registry_spec, artifact_registries_delete
<1>6. CASE \/ patch_context_pack_bindings
           \/ \E k \in CommandKeys :
                 \/ create_palette_command(k) \/ delete_palette_command(k)
                 \/ \E scope \in {"global", "own"} : patch_palette_command(scope, k)
  <2>1. spent' = [spent EXCEPT !.edits = spent.edits + 1] /\ UNCHANGED <<registries, visits>>
    BY <1>6 DEF create_palette_command, delete_palette_command, patch_palette_command,
       patch_context_pack_bindings, Edit
  <2>2. spent' \in [edits : Nat, ends : Nat, rows : Nat] /\ spent'.rows = spent.rows
    BY <1>0, <2>1
  <2> QED
    BY <1>0, <2>1, <2>2 DEF RegistriesFit
<1>7. CASE UNCHANGED <<registries, visits, spent>>
  BY <1>0, <1>7 DEF RegistriesFit
<1> QED
  BY <1>1, <1>2, <1>3, <1>4, <1>5, <1>6, <1>7
  DEF StartupNext, startupVars, _validate_runtime_repo_map_startup, init_db,
      _apply_dev_schema_upgrades, ensure_default_workspace,
      ensure_runtime_context_pack_artifacts, ensure_default_palette_commands, StartWorkers,
      _bootstrap_ai_agent_with_retry, Serve, PrepareHost, Distribute, list_context_packs

LEMMA EditionsStep == StartupInv /\ EditionsFit /\ [StartupNext]_startupVars => EditionsFit'
<1> SUFFICES ASSUME StartupInv, EditionsFit, [StartupNext]_startupVars PROVE EditionsFit'
  OBVIOUS
<1> USE DEF seedVars
<1>1. \/ UNCHANGED <<shipped, packs, bound>>
      \/ UNCHANGED <<packs, bound>> /\ Distribute
      \/ /\ UNCHANGED shipped /\ packs' = Synchronized
         /\ bound' = bound \/ bound' \subseteq {Id(p) : p \in packs}
  BY DEF StartupNext, startupVars, _validate_runtime_repo_map_startup, init_db,
     _apply_dev_schema_upgrades, ensure_default_workspace, ensure_seed_default_registry,
     ensure_runtime_context_pack_artifacts, ensure_default_palette_commands, StartWorkers,
     _bootstrap_ai_agent_with_retry, Serve, KernelEnds, PrepareHost, Distribute, Visit,
     get_registry_spec_by_slug, FindRow, upsert_registry_spec, artifact_registries_delete,
     create_palette_command, delete_palette_command, patch_palette_command, Edit,
     list_context_packs, patch_context_pack_bindings
<1>2. CASE UNCHANGED <<shipped, packs, bound>>
  BY <1>2 DEF EditionsFit
<1>3. CASE UNCHANGED <<packs, bound>> /\ Distribute
  <2>1. shipped'.edition = shipped.edition + 1 /\ shipped.edition < MaxEditions
    BY <1>3 DEF Distribute
  <2>2. shipped'.edition \in 1..MaxEditions
    BY <2>1, StartupBounds DEF EditionsFit
  <2> QED
    BY <1>3, <2>2 DEF EditionsFit
<1>4. CASE /\ UNCHANGED shipped /\ packs' = Synchronized
           /\ bound' = bound \/ bound' \subseteq {Id(p) : p \in packs}
  <2>1. \A q \in packs' : /\ q.edition = shipped.edition
                          /\ Id(q) \in {Id(p) : p \in packs} \/ q.born = shipped.edition
    BY <1>4, SynchronizedPacks
  <2>2. \A p, q : Id(p) = Id(q) => p.born = q.born
    BY DEF Id
  <2>3. \A q \in packs' : q.born \in 1..MaxEditions /\ q.edition \in 1..MaxEditions
    BY <2>1, <2>2 DEF EditionsFit
  <2>4. \A b \in bound' : b.born \in 1..MaxEditions
    <3>1. \A p \in packs : Id(p).born = p.born
      BY DEF Id
    <3> QED
      BY <1>4, <3>1 DEF EditionsFit
  <2> QED
    BY <1>4, <2>3, <2>4 DEF EditionsFit
<1> QED
  BY <1>1, <1>2, <1>3, <1>4

LEMMA StartupRowsStep ==
    StartupInv /\ StartupRowsFit /\ [StartupNext]_startupVars => StartupRowsFit'
BY KernelStep, RegistriesStep, EditionsStep DEF StartupRowsFit

LEMMA StartupTypes == StartupInv /\ StartupRowsFit => StartupTypeOK
<1> SUFFICES ASSUME StartupInv, StartupRowsFit PROVE StartupTypeOK
  OBVIOUS
<1>1. /\ config \in [autoCreate : BOOLEAN, strict : BOOLEAN] /\ boot \in BootPlaces
      /\ bootstrap.tries \in 0..MaxAttempts
  BY DEF StartupRowsFit, KernelFits
<1>2. /\ prepared \in [schema : {"absent", "tables", "current"}, workspace : BOOLEAN,
                       mapped : BOOLEAN]
      /\ commands \in [{"global", "own"} -> [CommandKeys -> {"none", "shipped", "edited"}]]
  BY DEF StartupInv, StartupFits, CommandRows
<1>3. /\ \A r \in registries : r.id \in 1..spent.rows /\ r.slug \in Slugs
                              /\ r.spec \in {"seed", "user"}
      /\ \A v \in DOMAIN visits : visits[v].target \in 0..spent.rows
  <2>1. spent.rows \in Nat
    BY DEF StartupRowsFit, RegistriesFit
  <2>2. \A r \in registries : r \in RegistryRows /\ r.id <= spent.rows
    BY DEF StartupRowsFit, RegistriesFit
  <2>3. \A v \in DOMAIN visits : visits[v] \in VisitRows /\ visits[v].target <= spent.rows
    BY DEF StartupRowsFit, RegistriesFit
  <2> QED
    BY <2>1, <2>2, <2>3 DEF RegistryRows, VisitRows
<1>4. shipped \in [slugs : SUBSET Packs, edition : 1..MaxEditions]
  BY DEF StartupInv, StartupFits, StartupRowsFit, EditionsFit
<1>5. packs \subseteq [slug : Packs, born : 1..MaxEditions, edition : 1..MaxEditions]
  BY DEF StartupInv, StartupFits, PackRows, StartupRowsFit, EditionsFit
<1>6. bound \subseteq [slug : Packs, born : 1..MaxEditions]
  BY DEF StartupInv, StartupFits, StartupRowsFit, EditionsFit
<1> QED
  BY <1>1, <1>2, <1>3, <1>4, <1>5, <1>6 DEF StartupTypeOK, BootPlaces

-----------------------------------------------------------------------------
(* The event feed.                                                         *)

(* What a longer sequence has in it.                                       *)
LEMMA AppendedToSet ==
    ASSUME NEW S, NEW s \in Seq(S), NEW e
    PROVE  ToSet(Append(s, e)) = ToSet(s) \union {e}
<1> DEFINE t == Append(s, e)
<1>1. /\ DOMAIN t = 1..(Len(s) + 1) /\ DOMAIN s = 1..Len(s) /\ Len(s) \in Nat
      /\ t[Len(s) + 1] = e /\ \A i \in DOMAIN s : t[i] = s[i]
  OBVIOUS
<1> HIDE DEF t
<1>2. DOMAIN t = DOMAIN s \union {Len(s) + 1}
  BY <1>1
<1>3. {t[i] : i \in DOMAIN t} = {s[i] : i \in DOMAIN s} \union {e}
  BY <1>1, <1>2
<1> QED
  BY <1>3 DEF ToSet, t

(* A finite set of numbers has a greatest one.                             *)
LEMMA GreatestOf ==
    ASSUME NEW S, S \subseteq Nat, IsFiniteSet(S), S # {}
    PROVE  \E x \in S : \A y \in S : y <= x
<1> DEFINE Above(e) == {f \in S : f >= e}
           T == {Cardinality(Above(e)) : e \in S}
<1>1. ASSUME NEW e \in S
      PROVE  IsFiniteSet(Above(e)) /\ Cardinality(Above(e)) \in Nat
  <2>1. Above(e) \in SUBSET S
    OBVIOUS
  <2> HIDE DEF Above
  <2> QED
    BY <2>1, FS_Subset, FS_CardinalityType
<1>2. T \subseteq Nat /\ T # {}
  BY <1>1
<1>3. Min(T) \in T /\ \A n \in T : Min(T) <= n
  <2> HIDE DEF T
  <2> QED
    BY <1>2, LeastOf
<1>4. PICK x \in S : Min(T) = Cardinality(Above(x))
  BY <1>3
<1>5. ASSUME NEW y \in S, ~(y <= x) PROVE FALSE
  <2>1. x \in Nat /\ y \in Nat /\ y > x
    BY <1>5
  <2>2. Above(y) \in SUBSET Above(x) /\ x \in Above(x) /\ x \notin Above(y)
    <3>1. \A f \in S : f \in Nat
      OBVIOUS
    <3>2. (\A f \in S : f >= y => f >= x) /\ x >= x /\ ~(x >= y)
      BY <2>1, <3>1
    <3> QED
      BY <3>2, Zenon
  <2>3. Cardinality(Above(x)) <= Cardinality(Above(y))
    BY <1>3, <1>4
  <2>4. IsFiniteSet(Above(x)) /\ Cardinality(Above(x)) \in Nat /\ Cardinality(Above(y)) \in Nat
    BY <1>1
  <2> HIDE DEF Above
  <2>5. Cardinality(Above(y)) <= Cardinality(Above(x))
    BY <2>2, <2>4, FS_Subset
  <2>6. Cardinality(Above(y)) = Cardinality(Above(x))
    BY <2>3, <2>4, <2>5
  <2> QED
    BY <2>2, <2>4, <2>6, FS_Subset
<1> QED
  BY <1>5

(* The n lowest elements of a set are below all others, and the n highest  *)
(* above.                                                                  *)
LEMMA LowestIsLow ==
    ASSUME NEW S, S \subseteq Nat, IsFiniteSet(S), NEW n \in Nat,
           NEW e \in Lowest(S, n), NEW f \in S, f < e
    PROVE  f \in Lowest(S, n)
<1> DEFINE A == {g \in S : g <= f}
           B == {g \in S : g <= e}
<1>1. A \in SUBSET B /\ B \in SUBSET S
  <2>1. e \in S /\ \A g \in S : g \in Nat
    BY DEF Lowest
  <2>2. \A g \in S : g <= f => g <= e
    BY <2>1
  <2>3. A \subseteq B /\ B \subseteq S
    BY <2>2, Zenon
  <2> QED
    BY <2>3, Zenon
<1>2. Cardinality(B) <= n
  BY DEF Lowest
<1>3. Cardinality(A) <= Cardinality(B) /\ Cardinality(A) \in Nat /\ Cardinality(B) \in Nat
  <2> HIDE DEF A, B
  <2>1. IsFiniteSet(B)
    BY <1>1, FS_Subset
  <2> QED
    BY <1>1, <2>1, FS_Subset, FS_CardinalityType
<1>4. Cardinality(A) <= n
  <2> HIDE DEF A, B
  <2> QED
    BY <1>2, <1>3
<1> QED
  BY <1>4 DEF Lowest

LEMMA HighestIsHigh ==
    ASSUME NEW S, S \subseteq Nat, IsFiniteSet(S), NEW n \in Nat,
           NEW e \in Highest(S, n), NEW f \in S, f > e
    PROVE  f \in Highest(S, n)
<1> DEFINE A == {g \in S : g >= f}
           B == {g \in S : g >= e}
<1>1. A \in SUBSET B /\ B \in SUBSET S
  <2>1. e \in S /\ \A g \in S : g \in Nat
    BY DEF Highest
  <2>2. \A g \in S : g >= f => g >= e
    BY <2>1
  <2>3. A \subseteq B /\ B \subseteq S
    BY <2>2, Zenon
  <2> QED
    BY <2>3, Zenon
<1>2. Cardinality(B) <= n
  BY DEF Highest
<1>3. Cardinality(A) <= Cardinality(B) /\ Cardinality(A) \in Nat /\ Cardinality(B) \in Nat
  <2> HIDE DEF A, B
  <2>1. IsFiniteSet(B)
    BY <1>1, FS_Subset
  <2> QED
    BY <1>1, <2>1, FS_Subset, FS_CardinalityType
<1>4. Cardinality(A) <= n
  <2> HIDE DEF A, B
  <2> QED
    BY <1>2, <1>3
<1> QED
  BY <1>4 DEF Highest

(* A set of no more than n is all among its n highest; a set whose n       *)
(* highest are fewer than n has no others.                                 *)
LEMMA HighestOfFew ==
    ASSUME NEW S, S \subseteq Nat, IsFiniteSet(S), NEW n \in Nat, Cardinality(S) <= n
    PROVE  Highest(S, n) = S
<1>1. ASSUME NEW e \in S PROVE e \in Highest(S, n)
  <2> DEFINE A == {f \in S : f >= e}
  <2>1. A \in SUBSET S
    OBVIOUS
  <2>2. Cardinality(A) <= n
    <3> HIDE DEF A
    <3>1. IsFiniteSet(A) /\ Cardinality(A) <= Cardinality(S)
      BY <2>1, FS_Subset
    <3>2. Cardinality(A) \in Nat /\ Cardinality(S) \in Nat
      BY <3>1, FS_CardinalityType
    <3> QED
      BY <3>1, <3>2
  <2> QED
    BY <2>2 DEF Highest
<1> QED
  BY <1>1 DEF Highest

LEMMA HighestThatAreFew ==
    ASSUME NEW S, S \subseteq Nat, IsFiniteSet(S), NEW n \in Nat,
           Cardinality(Highest(S, n)) < n
    PROVE  Highest(S, n) = S
<1> DEFINE H == Highest(S, n)
           R == S \ H
<1>1. H \in SUBSET S /\ R \in SUBSET S
  BY DEF Highest
<1>2. ASSUME R # {} PROVE FALSE
  <2>1. IsFiniteSet(R) /\ R \subseteq Nat /\ IsFiniteSet(H)
    <3> HIDE DEF R, H
    <3> QED
      BY <1>1, FS_Subset
  <2>2. PICK e \in R : \A f \in R : f <= e
    <3> HIDE DEF R, H
    <3> QED
      BY <1>2, <2>1, GreatestOf
  <2> DEFINE A == {f \in S : f >= e}
  <2>3. A \in SUBSET (H \union {e})
    <3>1. ASSUME NEW f \in S, f >= e, f # e PROVE f \in H
      <4>1. f \in Nat /\ e \in Nat
        OBVIOUS
      <4>2. f \notin R
        BY <2>2, <3>1, <4>1
      <4> QED
        BY <4>2
    <3> HIDE DEF H
    <3> QED
      BY <3>1
  <2>4. Cardinality(A) <= n
    <3> HIDE DEF A, R, H
    <3>1. IsFiniteSet(H \union {e}) /\ Cardinality(H \union {e}) <= Cardinality(H) + 1
          /\ Cardinality(H) \in Nat
      <4>1. IsFiniteSet(H) /\ Cardinality(H) \in Nat
        BY <2>1, FS_CardinalityType
      <4>2. /\ IsFiniteSet(H \union {e})
            /\ Cardinality(H \union {e}) = IF e \in H THEN Cardinality(H) ELSE Cardinality(H) + 1
        BY <4>1, FS_AddElement
      <4> QED
        BY <4>1, <4>2
    <3>2. IsFiniteSet(A) /\ Cardinality(A) <= Cardinality(H \union {e})
      BY <2>3, <3>1, FS_Subset
    <3>3. Cardinality(A) \in Nat /\ Cardinality(H \union {e}) \in Nat
      BY <3>1, <3>2, FS_CardinalityType
    <3>4. Cardinality(H) < n
      BY DEF H
    <3> QED
      BY <3>1, <3>2, <3>3, <3>4
  <2>5. e \in Highest(S, n)
    BY <2>4 DEF Highest
  <2> QED
    BY <2>5
<1> QED
  BY <1>1, <1>2

LEMMA HighestOfSome ==
    ASSUME NEW S, S \subseteq Nat, IsFiniteSet(S), NEW n \in Nat \ {0}, S # {}
    PROVE  Highest(S, n) # {}
<1>1. PICK e \in S : \A f \in S : f <= e
  BY GreatestOf
<1>2. {f \in S : f >= e} = {e}
  <2>1. \A f \in S : f \in Nat
    OBVIOUS
  <2>2. \A f \in S : f >= e <=> f = e
    BY <1>1, <2>1
  <2> QED
    BY <2>2
<1>3. Cardinality({f \in S : f >= e}) = 1
  BY <1>2, FS_Singleton
<1> QED
  BY <1>3 DEF Highest

LastGot == IF got = <<>> THEN 0 ELSE got[Len(got)]

FeedFits ==
    /\ matches \in Seq(BOOLEAN) /\ visible \subseteq Stamped /\ late \subseteq visible
    /\ stream \in [anchor : Nat, batch : SUBSET Nat, open : BOOLEAN] /\ got \in Seq(Nat)
    /\ pages \in [stage : {"idle", "more", "ended"}, cursor : Nat, shown : Seq(SUBSET Nat),
                  known : SUBSET Nat, floor : Nat]

(* What the client got is in order, what it is to get follows, and nothing *)
(* that was visible in time is skipped.                                    *)
GotInOrder ==
    /\ Increasing(got) /\ ToSet(got) \subseteq Matching(visible)
    /\ \A e \in Matching(visible) \ late : e <= LastGot => e \in ToSet(got)

BatchFollows ==
    /\ stream.open => stream.anchor = LastGot
    /\ ~stream.open => stream.batch = {}
    /\ stream.batch \subseteq Matching(visible) /\ \A b \in stream.batch : b > LastGot
    /\ \A e \in Matching(visible) \ late, b \in stream.batch :
           LastGot < e /\ e < b => e \in stream.batch

(* The cursor is the end of what was shown, and everything before it was.  *)
PagesInOrder ==
    /\ \A i, j \in DOMAIN pages.shown : i < j =>
           \A e \in pages.shown[i], f \in pages.shown[j] : f < e
    /\ Shown \subseteq Matching(visible) /\ pages.known \subseteq visible
    /\ pages.stage = "idle" => pages.cursor = 0 /\ Shown = {}
    /\ pages.stage = "more" =>
           /\ pages.cursor # 0 /\ \A e \in Shown : e >= pages.cursor
           /\ {e \in Matching(pages.known) : e >= pages.cursor} \subseteq Shown
    /\ pages.stage = "ended" =>
           {e \in Matching(pages.known) : e >= pages.floor} \subseteq Shown

FeedInv == FeedFits /\ GotInOrder /\ BatchFollows /\ PagesInOrder

(* There are finitely many events.                                         *)
LEMMA EventsAreFinite ==
    ASSUME FeedFits
    PROVE  /\ visible \subseteq Nat \ {0} /\ IsFiniteSet(visible)
           /\ \A S \in SUBSET visible : S \subseteq Nat /\ IsFiniteSet(S)
<1>1. visible \in SUBSET (1..Len(matches)) /\ Len(matches) \in Nat
  BY DEF FeedFits, Stamped
<1>2. IsFiniteSet(1..Len(matches))
  BY <1>1, FS_Interval
<1>3. IsFiniteSet(visible)
  BY <1>1, <1>2, FS_Subset
<1>4. visible \subseteq Nat \ {0}
  BY <1>1
<1>5. ASSUME NEW S \in SUBSET visible PROVE S \subseteq Nat /\ IsFiniteSet(S)
  BY <1>3, <1>4, <1>5, FS_Subset
<1> QED
  BY <1>3, <1>4, <1>5

(* What the client got last is the greatest.                               *)
LEMMA LastIsGreatest ==
    ASSUME FeedFits, GotInOrder
    PROVE  /\ LastGot \in Nat /\ \A e \in ToSet(got) : e <= LastGot
           /\ got # <<>> => LastGot \in ToSet(got)
<1>1. Len(got) \in Nat /\ DOMAIN got = 1..Len(got) /\ \A i \in DOMAIN got : got[i] \in Nat
  BY DEF FeedFits
<1>2. CASE got = <<>>
  <2>1. DOMAIN got = {}
    BY <1>2
  <2> QED
    BY <1>2, <2>1 DEF LastGot, ToSet
<1>3. CASE got # <<>>
  <2>1. Len(got) \in DOMAIN got
    BY <1>1, <1>3 DEF FeedFits
  <2>2. LastGot = got[Len(got)]
    BY <1>3 DEF LastGot
  <2>3. ASSUME NEW i \in DOMAIN got PROVE got[i] <= LastGot
    <3>1. CASE i < Len(got)
      BY <1>1, <2>1, <2>2, <3>1 DEF GotInOrder, Increasing
    <3>2. CASE i = Len(got)
      BY <1>1, <2>1, <2>2, <3>2
    <3> QED
      BY <1>1, <3>1, <3>2
  <2> QED
    BY <1>1, <2>1, <2>2, <2>3 DEF ToSet
<1> QED
  BY <1>2, <1>3

LEMMA FeedInvInit == FeedInit => FeedInv
<1> SUFFICES ASSUME FeedInit PROVE FeedInv
  OBVIOUS
<1>1. /\ matches = <<>> /\ visible = {} /\ late = {} /\ got = <<>>
      /\ stream = [anchor |-> 0, batch |-> {}, open |-> TRUE]
      /\ pages = [stage |-> "idle", cursor |-> 0, shown |-> <<>>, known |-> {}, floor |-> 0]
  BY DEF FeedInit
<1>2. /\ DOMAIN got = {} /\ DOMAIN pages.shown = {} /\ ToSet(got) = {} /\ ToSet(pages.shown) = {}
      /\ Matching(visible) = {}
  BY <1>1 DEF ToSet, Matching
<1>3. Shown = {}
  BY <1>2 DEF Shown
<1>4. FeedFits
  BY <1>1 DEF FeedFits
<1> QED
  BY <1>1, <1>2, <1>3, <1>4 DEF FeedInv, GotInOrder, BatchFollows, PagesInOrder, Increasing, LastGot

(* One lemma for each step of the writers, the stream and the listing.     *)
LEMMA StampKeeps ==
    ASSUME FeedInv, NEW match \in BOOLEAN, StampEvent(match)
    PROVE  FeedInv'
<1>1. /\ matches' = Append(matches, match)
      /\ UNCHANGED <<visible, late, stream, got, pages>>
  BY DEF StampEvent
<1>2. /\ matches' \in Seq(BOOLEAN) /\ Stamped \subseteq Stamped'
      /\ \A e \in Stamped : matches'[e] = matches[e]
  BY <1>1 DEF FeedInv, FeedFits, Stamped
<1>3. FeedFits'
  BY <1>1, <1>2 DEF FeedInv, FeedFits
<1>4. ASSUME NEW S \in SUBSET visible
      PROVE  {e \in S : matches'[e]} = {e \in S : matches[e]}
  BY <1>2 DEF FeedInv, FeedFits
<1>5. Matching(visible)' = Matching(visible) /\ Matching(pages.known)' = Matching(pages.known)
  BY <1>1, <1>4 DEF Matching, FeedInv, PagesInOrder
<1>6. Shown' = Shown /\ LastGot' = LastGot
  BY <1>1 DEF Shown, LastGot
<1> QED
  BY <1>1, <1>3, <1>5, <1>6 DEF FeedInv, GotInOrder, BatchFollows, PagesInOrder, Increasing

LEMMA CommitEventKeeps ==
    ASSUME FeedInv, NEW e \in Stamped, CommitEvent(e)
    PROVE  FeedInv'
<1>1. /\ e \in Stamped \ visible /\ visible' = visible \union {e}
      /\ late' = IF \E f \in visible : f > e THEN late \union {e} ELSE late
      /\ UNCHANGED <<matches, stream, got, pages>>
  BY DEF CommitEvent
<1>2. FeedFits'
  BY <1>1 DEF FeedInv, FeedFits, Stamped
<1>3. /\ Matching(visible) \subseteq Matching(visible)'
      /\ Matching(visible)' \subseteq Matching(visible) \union {e}
      /\ Matching(pages.known)' = Matching(pages.known)
  BY <1>1 DEF Matching
<1>4. Shown' = Shown /\ LastGot' = LastGot
  BY <1>1 DEF Shown, LastGot
<1>5. ASSUME NEW f \in (Matching(visible) \ late)', f \notin Matching(visible) \ late
      PROVE  f = e /\ \A g \in visible : g < f
  <2>1. f = e /\ ~ \E g \in visible : g > e
    BY <1>1, <1>3, <1>5
  <2>2. e \in Nat /\ \A g \in visible : g \in Nat /\ g # e
    BY <1>1 DEF FeedInv, FeedFits, Stamped
  <2> QED
    BY <2>1, <2>2
<1>6. /\ LastGot \in Nat /\ (got # <<>> => LastGot \in visible)
      /\ stream.batch \subseteq visible
  BY LastIsGreatest DEF FeedInv, GotInOrder, BatchFollows, Matching
<1>7. GotInOrder'
  <2>1. ASSUME NEW f \in (Matching(visible) \ late)', f <= LastGot
        PROVE  f \in ToSet(got)
    <3>1. CASE f \in Matching(visible) \ late
      BY <2>1, <3>1 DEF FeedInv, GotInOrder
    <3>2. CASE f \notin Matching(visible) \ late
      <4>1. f = e /\ e \in Nat \ {0} /\ \A g \in visible : g < f /\ g \in Nat
        BY <1>5, <3>2 DEF FeedInv, FeedFits, Stamped
      <4>2. got # <<>>
        BY <2>1, <4>1 DEF LastGot
      <4> QED
        BY <1>6, <2>1, <4>1, <4>2
    <3> QED
      BY <3>1, <3>2
  <2> QED
    BY <1>1, <1>3, <1>4, <2>1 DEF FeedInv, GotInOrder, Increasing
<1>8. BatchFollows'
  <2>1. ASSUME NEW f \in (Matching(visible) \ late)', NEW b \in stream.batch, LastGot < f, f < b
        PROVE  f \in stream.batch
    <3>1. CASE f \in Matching(visible) \ late
      BY <2>1, <3>1 DEF FeedInv, BatchFollows
    <3>2. CASE f \notin Matching(visible) \ late
      <4>1. f = e /\ e \in Nat /\ \A g \in visible : g < f /\ g \in Nat
        BY <1>5, <3>2 DEF FeedInv, FeedFits, Stamped
      <4> QED
        BY <1>6, <2>1, <4>1
    <3> QED
      BY <3>1, <3>2
  <2> QED
    BY <1>1, <1>3, <1>4, <2>1 DEF FeedInv, BatchFollows
<1>9. PagesInOrder'
  BY <1>1, <1>3, <1>4 DEF FeedInv, PagesInOrder
<1> QED
  BY <1>2, <1>7, <1>8, <1>9 DEF FeedInv

LEMMA PollKeeps ==
    ASSUME FeedInv, Poll
    PROVE  FeedInv'
<1> DEFINE later == After(stream.anchor)
           window == Lowest(later, Window)
           batch == Lowest(Matching(window), Limit)
<1>1. /\ stream.open /\ stream' = [stream EXCEPT !.batch = batch]
      /\ UNCHANGED <<matches, visible, late, got, pages>>
  BY DEF Poll, _query_stream_events
<1>2. /\ later \subseteq visible /\ \A e \in visible : e \in later <=> e > LastGot
  BY <1>1 DEF After, FeedInv, BatchFollows
<1>3. /\ window \subseteq later /\ batch \subseteq Matching(window)
      /\ Matching(window) \subseteq window /\ Matching(window) \subseteq Matching(visible)
  BY <1>2 DEF Lowest, Matching
<1>4. /\ later \subseteq Nat /\ IsFiniteSet(later)
      /\ Matching(window) \subseteq Nat /\ IsFiniteSet(Matching(window))
  BY <1>2, <1>3, EventsAreFinite DEF FeedInv
<1>5. Window \in Nat /\ Limit \in Nat
  BY FeedAssumption
<1> HIDE DEF later, window, batch
<1>6. ASSUME NEW e \in Matching(visible), NEW b \in batch, LastGot < e, e < b
      PROVE  e \in batch
  <2>1. e \in visible /\ e \in later
    BY <1>2, <1>6 DEF Matching
  <2>2. b \in window
    BY <1>3
  <2>3. e \in window
    BY <1>4, <1>5, <1>6, <2>1, <2>2, LowestIsLow DEF window
  <2>4. e \in Matching(window)
    BY <2>3 DEF Matching
  <2> QED
    BY <1>4, <1>5, <1>6, <2>4, LowestIsLow DEF batch
<1>7. batch \subseteq Matching(visible) /\ \A b \in batch : b > LastGot /\ b \in Nat
  <2>1. ASSUME NEW b \in batch PROVE b \in later
    BY <1>3
  <2> QED
    BY <1>2, <1>3, <1>4, <2>1
<1>8. /\ stream'.batch = batch /\ stream'.open = stream.open /\ stream'.anchor = stream.anchor
      /\ stream' \in [anchor : Nat, batch : SUBSET Nat, open : BOOLEAN]
  <2>1. batch \in SUBSET Nat
    BY <1>7
  <2> QED
    BY <1>1, <2>1 DEF FeedInv, FeedFits
<1>9. Matching(visible)' = Matching(visible) /\ Matching(pages.known)' = Matching(pages.known)
      /\ Shown' = Shown /\ LastGot' = LastGot
  BY <1>1 DEF Matching, Shown, LastGot
<1>10. FeedFits'
  BY <1>1, <1>8 DEF FeedInv, FeedFits, Stamped
<1>11. GotInOrder' /\ PagesInOrder'
  BY <1>1, <1>9 DEF FeedInv, GotInOrder, PagesInOrder, Increasing
<1>12. BatchFollows'
  BY <1>1, <1>6, <1>7, <1>8, <1>9 DEF FeedInv, BatchFollows
<1> QED
  BY <1>10, <1>11, <1>12 DEF FeedInv

LEMMA SendEventKeeps ==
    ASSUME FeedInv, SendEvent
    PROVE  FeedInv'
<1> DEFINE e == Min(stream.batch)
<1>1. /\ stream.open /\ stream.batch # {}
      /\ stream' = [stream EXCEPT !.anchor = e, !.batch = stream.batch \ {e}]
      /\ got' = Append(got, e) /\ UNCHANGED <<matches, visible, late, pages>>
  BY DEF SendEvent
<1>2. e \in stream.batch /\ \A b \in stream.batch : e <= b
  <2>1. stream.batch \subseteq Nat
    BY DEF FeedInv, FeedFits
  <2> QED
    BY <1>1, <2>1, LeastOf
<1> HIDE DEF e
<1>3. e \in Nat /\ e \in Matching(visible) /\ e > LastGot /\ LastGot \in Nat
  BY <1>2, LastIsGreatest DEF FeedInv, FeedFits, BatchFollows
<1>4. /\ stream'.batch = stream.batch \ {e} /\ stream'.open = stream.open /\ stream'.anchor = e
      /\ stream' \in [anchor : Nat, batch : SUBSET Nat, open : BOOLEAN]
  <2>1. stream \in [anchor : Nat, batch : SUBSET Nat, open : BOOLEAN]
    BY DEF FeedInv, FeedFits
  <2>2. stream.batch \ {e} \in SUBSET Nat
    BY <2>1
  <2> QED
    BY <1>1, <1>3, <2>1, <2>2
<1>5. FeedFits'
  BY <1>1, <1>3, <1>4 DEF FeedInv, FeedFits, Stamped
<1>6. /\ Len(got) \in Nat /\ DOMAIN got = 1..Len(got) /\ Len(got') = Len(got) + 1
      /\ DOMAIN got' = 1..(Len(got) + 1) /\ got' # <<>>
      /\ got'[Len(got) + 1] = e /\ \A i \in DOMAIN got : got'[i] = got[i] /\ got[i] \in Nat
  <2>1. got \in Seq(Nat) /\ got' = Append(got, e)
    BY <1>1 DEF FeedInv, FeedFits
  <2>2. /\ Len(got) \in Nat /\ DOMAIN got = 1..Len(got) /\ Len(got') = Len(got) + 1
        /\ DOMAIN got' = 1..(Len(got) + 1)
        /\ got'[Len(got) + 1] = e /\ \A i \in DOMAIN got : got'[i] = got[i] /\ got[i] \in Nat
    BY <1>3, <2>1
  <2>3. got' # <<>>
    BY <2>2
  <2> QED
    BY <2>2, <2>3
<1>7. LastGot' = e
  BY <1>6 DEF LastGot
<1>8. ToSet(got)' = ToSet(got) \union {e}
  BY <1>1, AppendedToSet DEF FeedInv, FeedFits
<1>9. Matching(visible)' = Matching(visible) /\ Matching(pages.known)' = Matching(pages.known)
      /\ Shown' = Shown
  BY <1>1 DEF Matching, Shown
<1>10. \A f \in Matching(visible) : f \in Nat
  BY EventsAreFinite DEF FeedInv, Matching
<1>11. GotInOrder'
  <2>1. Increasing(got)'
    <3>1. ASSUME NEW i \in DOMAIN got PROVE got[i] < e
      <4>1. got[i] \in ToSet(got)
        BY DEF ToSet
      <4> QED
        BY <1>3, <1>6, <4>1, LastIsGreatest DEF FeedInv
    <3> QED
      BY <1>6, <3>1 DEF FeedInv, GotInOrder, Increasing
  <2>2. ASSUME NEW f \in Matching(visible) \ late, f <= e
        PROVE  f \in ToSet(got) \union {e}
    <3>1. f \in Nat
      BY <1>10
    <3>2. CASE f <= LastGot
      BY <3>2 DEF FeedInv, GotInOrder
    <3>3. CASE LastGot < f /\ f < e
      <4>1. f \in stream.batch
        BY <1>2, <3>3 DEF FeedInv, BatchFollows
      <4> QED
        BY <1>2, <1>3, <3>1, <3>3, <4>1
    <3> QED
      BY <1>3, <2>2, <3>1, <3>2, <3>3
  <2> QED
    BY <1>1, <1>3, <1>7, <1>8, <1>9, <2>1, <2>2 DEF FeedInv, GotInOrder
<1>12. BatchFollows'
  <2>1. ASSUME NEW b \in stream.batch \ {e} PROVE b > e
    <3>1. b \in Nat /\ e <= b /\ b # e
      BY <1>2 DEF FeedInv, FeedFits
    <3> QED
      BY <1>3, <3>1
  <2>2. ASSUME NEW f \in Matching(visible) \ late, NEW b \in stream.batch, e < f, f < b
        PROVE  f \in stream.batch \ {e}
    <3>1. LastGot < f /\ f # e
      <4>1. f \in Nat
        BY <1>10
      <4> QED
        BY <1>3, <2>2, <4>1
    <3> QED
      BY <2>2, <3>1 DEF FeedInv, BatchFollows
  <2> QED
    BY <1>1, <1>4, <1>7, <1>9, <2>1, <2>2 DEF FeedInv, BatchFollows
<1>13. PagesInOrder'
  BY <1>1, <1>9 DEF FeedInv, PagesInOrder
<1> QED
  BY <1>5, <1>11, <1>12, <1>13 DEF FeedInv

LEMMA BreakKeeps ==
    ASSUME FeedInv, Break
    PROVE  FeedInv'
<1>1. /\ stream' = [stream EXCEPT !.open = FALSE, !.batch = {}]
      /\ UNCHANGED <<matches, visible, late, pages>>
      /\ \/ got' = got
         \/ got # <<>> /\ got' = SubSeq(got, 1, Len(got) - 1)
  BY DEF Break
<1>2. /\ stream'.batch = {} /\ stream'.open = FALSE
      /\ stream' \in [anchor : Nat, batch : SUBSET Nat, open : BOOLEAN]
  BY <1>1 DEF FeedInv, FeedFits
<1>3. Matching(visible)' = Matching(visible) /\ Matching(pages.known)' = Matching(pages.known)
      /\ Shown' = Shown
  BY <1>1 DEF Matching, Shown
<1>4. BatchFollows' /\ PagesInOrder'
  BY <1>1, <1>2, <1>3 DEF FeedInv, BatchFollows, PagesInOrder
<1>5. CASE got' = got
  <2>1. GotInOrder' /\ FeedFits'
    BY <1>1, <1>2, <1>3, <1>5 DEF FeedInv, FeedFits, GotInOrder, Increasing, LastGot, Stamped
  <2> QED
    BY <1>4, <2>1 DEF FeedInv
<1>6. CASE got # <<>> /\ got' = SubSeq(got, 1, Len(got) - 1)
  <2>1. /\ Len(got) \in Nat \ {0} /\ DOMAIN got = 1..Len(got)
        /\ \A i \in DOMAIN got : got[i] \in Nat
    BY <1>6 DEF FeedInv, FeedFits
  <2>2. /\ got' \in Seq(Nat) /\ Len(got') = Len(got) - 1 /\ DOMAIN got' = 1..(Len(got) - 1)
        /\ \A i \in DOMAIN got' : got'[i] = got[i]
    <3> DEFINE n == Len(got) - 1
    <3>1. n \in Nat /\ n <= Len(got) /\ got \in Seq(Nat)
      BY <2>1 DEF FeedInv, FeedFits
    <3>2. got' = SubSeq(got, 1, n)
      BY <1>6
    <3>3. got' = [i \in 1..n |-> got[i]]
      BY <3>1, <3>2
    <3> HIDE DEF n
    <3>4. got' \in [1..n -> Nat]
      BY <2>1, <3>1, <3>3
    <3>5. got' \in Seq(Nat) /\ Len(got') = n /\ DOMAIN got' = 1..n
      BY <3>1, <3>4
    <3> QED
      BY <3>3, <3>5 DEF n
  <2>3. FeedFits'
    BY <1>1, <1>2, <2>2 DEF FeedInv, FeedFits, Stamped
  <2>4. Increasing(got)' /\ ToSet(got)' \subseteq ToSet(got)
    BY <2>1, <2>2 DEF FeedInv, GotInOrder, Increasing, ToSet
  <2>5. ASSUME NEW f \in Matching(visible) \ late, f <= LastGot'
        PROVE  f \in ToSet(got)'
    <3>1. f \in Nat \ {0}
      BY EventsAreFinite DEF FeedInv, Matching
    <3>2. got' # <<>> /\ Len(got) - 1 \in DOMAIN got'
      <4>1. got' # <<>>
        BY <2>5, <3>1 DEF LastGot
      <4>2. Len(got') # 0
        BY <2>2, <4>1
      <4> QED
        BY <2>1, <2>2, <4>1, <4>2
    <3>3. LastGot' = got[Len(got) - 1] /\ LastGot = got[Len(got)]
      BY <1>6, <2>2, <3>2 DEF LastGot
    <3>4. LastGot' < LastGot /\ LastGot' \in Nat /\ LastGot \in Nat
      BY <2>1, <2>2, <3>2, <3>3 DEF FeedInv, GotInOrder, Increasing
    <3>5. f \in ToSet(got)
      BY <2>5, <3>1, <3>4 DEF FeedInv, GotInOrder
    <3>6. PICK i \in DOMAIN got : f = got[i]
      BY <3>5 DEF ToSet
    <3>7. i # Len(got)
      BY <2>5, <3>1, <3>3, <3>4, <3>6
    <3>8. i \in DOMAIN got' /\ got'[i] = f
      BY <2>1, <2>2, <3>6, <3>7
    <3> QED
      BY <3>8 DEF ToSet
  <2>6. GotInOrder'
    BY <1>1, <1>3, <2>4, <2>5 DEF FeedInv, GotInOrder
  <2> QED
    BY <1>4, <2>3, <2>6 DEF FeedInv
<1> QED
  BY <1>1, <1>5, <1>6

LEMMA ReconnectKeeps ==
    ASSUME FeedInv, Reconnect
    PROVE  FeedInv'
<1>1. /\ stream' = [anchor |-> LastGot, batch |-> {}, open |-> TRUE]
      /\ UNCHANGED <<matches, visible, late, got, pages>>
  BY DEF Reconnect, LastGot
<1>2. /\ stream'.batch = {} /\ stream'.open /\ stream'.anchor = LastGot
      /\ stream' \in [anchor : Nat, batch : SUBSET Nat, open : BOOLEAN]
  BY <1>1, LastIsGreatest DEF FeedInv
<1>3. Matching(visible)' = Matching(visible) /\ Matching(pages.known)' = Matching(pages.known)
      /\ Shown' = Shown /\ LastGot' = LastGot
  BY <1>1 DEF Matching, Shown, LastGot
<1> QED
  BY <1>1, <1>2, <1>3 DEF FeedInv, FeedFits, Stamped, GotInOrder, BatchFollows, PagesInOrder, Increasing

LEMMA ListKeeps ==
    ASSUME FeedInv, list_events
    PROVE  FeedInv'
<1> DEFINE candidates == Highest(Before(pages.cursor), Window)
           events == Matching(candidates)
           more == Cardinality(events) > Limit
           page == Highest(events, Limit)
           new == [stage |-> IF more THEN "more" ELSE "ended",
                   cursor |-> IF more THEN Min(page) ELSE 0,
                   shown |-> Append(pages.shown, page),
                   known |-> IF pages.stage = "idle" THEN visible ELSE pages.known,
                   floor |-> IF Cardinality(candidates) < Window THEN 0 ELSE Min(candidates)]
<1>1. /\ pages.stage # "ended" /\ pages' = new
      /\ UNCHANGED <<matches, visible, late, stream, got>>
  BY DEF list_events, _query_events
<1>2. /\ Before(pages.cursor) \subseteq visible
      /\ \A e \in visible : e \in Before(pages.cursor) <=> pages.cursor = 0 \/ e < pages.cursor
  BY DEF Before
<1>3. candidates \subseteq Before(pages.cursor) /\ events \subseteq candidates /\ page \subseteq events
  BY DEF Highest, Matching
<1>4. /\ Before(pages.cursor) \subseteq Nat /\ IsFiniteSet(Before(pages.cursor))
      /\ candidates \subseteq Nat \ {0} /\ events \subseteq Nat /\ page \subseteq Nat \ {0}
      /\ IsFiniteSet(candidates) /\ IsFiniteSet(events) /\ IsFiniteSet(page)
  BY <1>2, <1>3, EventsAreFinite DEF FeedInv
<1>5. Window \in Nat \ {0} /\ Limit \in Nat \ {0}
  BY FeedAssumption
<1>6. events \subseteq Matching(visible) /\ \A e \in candidates \cap Matching(visible) : e \in events
  BY <1>2, <1>3 DEF Matching
<1>7. Cardinality(candidates) \in Nat /\ Cardinality(events) \in Nat
  BY <1>4, FS_CardinalityType
<1>8. pages'.shown = Append(pages.shown, page) /\ pages'.stage = (IF more THEN "more" ELSE "ended")
      /\ pages'.cursor = (IF more THEN Min(page) ELSE 0)
      /\ pages'.known = (IF pages.stage = "idle" THEN visible ELSE pages.known)
      /\ pages'.floor = (IF Cardinality(candidates) < Window THEN 0 ELSE Min(candidates))
  BY <1>1
<1>9. more => Min(page) \in page /\ \A e \in page : Min(page) <= e
  <2>1. ASSUME more PROVE page # {}
    <3>1. events # {}
      BY <1>5, <2>1, FS_EmptySet
    <3> HIDE DEF events
    <3> QED
      BY <1>4, <1>5, <3>1, HighestOfSome
  <2> HIDE DEF page, more
  <2> QED
    BY <1>4, <2>1, LeastOf
<1>10. Cardinality(candidates) >= Window =>
           Min(candidates) \in candidates /\ \A e \in candidates : Min(candidates) <= e
  <2>1. ASSUME Cardinality(candidates) >= Window PROVE candidates # {}
    BY <1>5, <2>1, FS_EmptySet
  <2> HIDE DEF candidates
  <2> QED
    BY <1>4, <2>1, LeastOf
<1>11. ASSUME NEW e \in candidates, NEW f \in Before(pages.cursor), f >= e
       PROVE  f \in candidates
  <2>1. e \in Nat /\ f \in Nat
    BY <1>4
  <2>2. CASE f > e
    BY <1>4, <1>5, <1>11, <2>2, HighestIsHigh
  <2> QED
    BY <1>11, <2>1, <2>2
<1>12. ASSUME NEW e \in page, NEW f \in events, f >= e
       PROVE  f \in page
  <2>1. e \in Nat /\ f \in Nat
    BY <1>4
  <2>2. CASE f > e
    <3> HIDE DEF events
    <3> QED
      BY <1>4, <1>5, <1>12, <2>2, HighestIsHigh
  <2> QED
    BY <1>12, <2>1, <2>2
<1>13. Cardinality(candidates) < Window => candidates = Before(pages.cursor)
  BY <1>4, <1>5, HighestThatAreFew
<1>14. ~more => page = events
  <2>1. ~more => Cardinality(events) <= Limit
    BY <1>5, <1>7
  <2> HIDE DEF events
  <2> QED
    BY <1>4, <1>5, <1>7, <2>1, HighestOfFew
<1> HIDE DEF candidates, events, page, more, new
<1>15. pages' \in [stage : {"idle", "more", "ended"}, cursor : Nat, shown : Seq(SUBSET Nat),
                   known : SUBSET Nat, floor : Nat]
  <2>1. Append(pages.shown, page) \in Seq(SUBSET Nat)
    <3>1. page \in SUBSET Nat /\ pages.shown \in Seq(SUBSET Nat)
      BY <1>4 DEF FeedInv, FeedFits
    <3> QED
      BY <3>1
  <2>2. (IF more THEN Min(page) ELSE 0) \in Nat
    BY <1>4, <1>9
  <2>3. (IF Cardinality(candidates) < Window THEN 0 ELSE Min(candidates)) \in Nat
    <3>1. CASE Cardinality(candidates) >= Window
      BY <1>4, <1>10, <3>1
    <3>2. CASE Cardinality(candidates) < Window
      BY <3>2
    <3> QED
      BY <1>5, <1>7, <3>1, <3>2
  <2>4. (IF pages.stage = "idle" THEN visible ELSE pages.known) \in SUBSET Nat
    BY EventsAreFinite DEF FeedInv, FeedFits
  <2> QED
    BY <1>1, <2>1, <2>2, <2>3, <2>4 DEF new
<1>16. Matching(visible)' = Matching(visible) /\ LastGot' = LastGot
       /\ \A S : Matching(S)' = {e \in S' : matches[e]}
  BY <1>1 DEF Matching, LastGot
<1>17. FeedFits' /\ GotInOrder' /\ BatchFollows'
  BY <1>1, <1>15, <1>16 DEF FeedInv, FeedFits, GotInOrder, BatchFollows, Stamped, Increasing
<1>18. Shown' = Shown \union page
  <2>1. ToSet(pages.shown)' = ToSet(pages.shown) \union {page}
    BY <1>8, AppendedToSet DEF FeedInv, FeedFits
  <2> QED
    BY <2>1 DEF Shown
(* A page is below all that were shown before.                             *)
<1>19. ASSUME NEW e \in Shown, NEW f \in page PROVE f < e
  <2>1. pages.stage = "more" /\ e >= pages.cursor /\ pages.cursor # 0
    BY <1>1 DEF FeedInv, FeedFits, PagesInOrder
  <2>2. f \in visible /\ f \in Before(pages.cursor)
    BY <1>2, <1>3
  <2>3. f < pages.cursor
    BY <1>2, <2>1, <2>2
  <2>4. e \in Nat /\ f \in Nat /\ pages.cursor \in Nat
    BY <1>4, EventsAreFinite DEF FeedInv, FeedFits, PagesInOrder, Matching
  <2> QED
    BY <2>1, <2>3, <2>4
<1>20. \A i, j \in DOMAIN pages'.shown : i < j =>
           \A e \in pages'.shown[i], f \in pages'.shown[j] : f < e
  <2>1. /\ Len(pages.shown) \in Nat /\ DOMAIN pages.shown = 1..Len(pages.shown)
        /\ DOMAIN pages'.shown = 1..(Len(pages.shown) + 1)
        /\ pages'.shown[Len(pages.shown) + 1] = page
        /\ \A i \in DOMAIN pages.shown : pages'.shown[i] = pages.shown[i]
    <3>1. pages.shown \in Seq(SUBSET Nat) /\ page \in SUBSET Nat
      BY <1>4 DEF FeedInv, FeedFits
    <3> QED
      BY <1>8, <3>1
  <2>2. \A i \in DOMAIN pages.shown : pages.shown[i] \subseteq Shown
    BY DEF Shown, ToSet
  <2>3. ASSUME NEW i \in DOMAIN pages'.shown, NEW j \in DOMAIN pages'.shown, i < j,
               NEW e \in pages'.shown[i], NEW f \in pages'.shown[j]
        PROVE  f < e
    <3>1. CASE j = Len(pages.shown) + 1
      <4>1. i \in DOMAIN pages.shown
        BY <2>1, <2>3, <3>1
      <4> QED
        BY <1>19, <2>1, <2>2, <2>3, <3>1, <4>1
    <3>2. CASE j # Len(pages.shown) + 1
      <4>1. i \in DOMAIN pages.shown /\ j \in DOMAIN pages.shown
        BY <2>1, <2>3, <3>2
      <4> QED
        BY <2>1, <2>3, <4>1 DEF FeedInv, PagesInOrder
    <3> QED
      BY <3>1, <3>2
  <2> QED
    BY <2>3
(* What was there at the start and lies before the old cursor is on the    *)
(* page, or behind what the page reaches.                                  *)
<1>21. pages'.known \subseteq visible
  BY <1>8 DEF FeedInv, PagesInOrder
<1>22. ASSUME NEW e \in pages'.known, matches[e], e \notin Shown
       PROVE  e \in Before(pages.cursor) /\ e \in Matching(visible) /\ e \in Nat
  <2>1. e \in visible /\ e \in Matching(visible) /\ e \in Nat
    BY <1>21, <1>22, EventsAreFinite DEF Matching, FeedInv
  <2>2. CASE pages.stage = "idle"
    BY <1>2, <2>1, <2>2 DEF FeedInv, PagesInOrder
  <2>3. CASE pages.stage = "more"
    <3>1. e \in Matching(pages.known)
      BY <1>8, <1>22, <2>3 DEF Matching
    <3>2. ~(e >= pages.cursor) /\ pages.cursor \in Nat
      BY <1>22, <2>3, <3>1 DEF FeedInv, FeedFits, PagesInOrder
    <3> QED
      BY <1>2, <2>1, <3>2
  <2> QED
    BY <1>1, <2>1, <2>2, <2>3 DEF FeedInv, FeedFits
<1>23. ASSUME more
       PROVE  /\ pages'.cursor # 0 /\ \A e \in Shown' : e >= pages'.cursor
              /\ \A e \in pages'.known : matches[e] /\ e >= pages'.cursor => e \in Shown'
  <2>1. pages'.cursor = Min(page) /\ Min(page) \in page /\ \A e \in page : Min(page) <= e
    BY <1>8, <1>9, <1>23
  <2>2. Min(page) \in Nat \ {0} /\ Min(page) \in candidates /\ \A e \in page : e \in Nat
    BY <1>3, <1>4, <2>1
  <2>3. \A e \in Shown : e \in Nat
    BY EventsAreFinite DEF FeedInv, PagesInOrder, Matching
  <2>4. \A e \in Shown' : e >= Min(page)
    BY <1>18, <1>19, <2>1, <2>2, <2>3
  <2>5. ASSUME NEW e \in pages'.known, matches[e], e >= Min(page), e \notin Shown
        PROVE  e \in page
    <3>1. e \in Before(pages.cursor) /\ e \in Matching(visible)
      BY <1>22, <2>5
    <3>2. e \in candidates
      BY <1>11, <2>2, <2>5, <3>1
    <3>3. e \in events
      BY <1>6, <3>1, <3>2
    <3> QED
      BY <1>12, <2>1, <2>5, <3>3
  <2> QED
    BY <1>18, <2>1, <2>2, <2>4, <2>5
<1>24. ASSUME ~more
       PROVE  \A e \in pages'.known : matches[e] /\ e >= pages'.floor => e \in Shown'
  <2>1. ASSUME NEW e \in pages'.known, matches[e], e >= pages'.floor, e \notin Shown
        PROVE  e \in page
    <3>1. e \in Before(pages.cursor) /\ e \in Matching(visible) /\ e \in Nat
      BY <1>22, <2>1
    <3>2. e \in candidates
      <4>1. CASE Cardinality(candidates) < Window
        BY <1>13, <3>1, <4>1
      <4>2. CASE ~(Cardinality(candidates) < Window)
        <5>1. Cardinality(candidates) >= Window
          BY <1>5, <1>7, <4>2
        <5>2. e >= Min(candidates) /\ Min(candidates) \in candidates
          BY <1>8, <1>10, <2>1, <4>2, <5>1
        <5> QED
          BY <1>11, <3>1, <5>2
      <4> QED
        BY <4>1, <4>2
    <3> QED
      BY <1>6, <1>14, <1>24, <3>1, <3>2
  <2> QED
    BY <1>18, <2>1
<1>25. PagesInOrder'
  <2>1. Shown' \subseteq Matching(visible)' /\ pages'.known \subseteq visible'
    BY <1>1, <1>3, <1>6, <1>16, <1>18, <1>21 DEF FeedInv, PagesInOrder
  <2>2. Matching(pages.known)' = {e \in pages'.known : matches[e]}
    BY <1>1 DEF Matching
  <2>3. pages'.stage # "idle"
    BY <1>8
  <2>4. CASE more
    BY <1>8, <1>20, <1>23, <2>1, <2>2, <2>3, <2>4 DEF PagesInOrder
  <2>5. CASE ~more
    BY <1>8, <1>20, <1>24, <2>1, <2>2, <2>3, <2>5 DEF PagesInOrder
  <2> QED
    BY <2>4, <2>5
<1> QED
  BY <1>17, <1>25 DEF FeedInv

LEMMA FeedStep == FeedInv /\ [FeedNext]_feedVars => FeedInv'
<1> SUFFICES ASSUME FeedInv, [FeedNext]_feedVars PROVE FeedInv'
  OBVIOUS
<1>1. CASE UNCHANGED feedVars
  <2>1. UNCHANGED <<matches, visible, late, stream, got, pages>>
    BY <1>1 DEF feedVars
  <2>2. Matching(visible)' = Matching(visible) /\ Matching(pages.known)' = Matching(pages.known)
        /\ Shown' = Shown /\ LastGot' = LastGot
    BY <2>1 DEF Matching, Shown, LastGot
  <2> QED
    BY <2>1, <2>2 DEF FeedInv, FeedFits, Stamped, GotInOrder, BatchFollows, PagesInOrder, Increasing
<1>2. CASE stream_events
  BY <1>2, PollKeeps, SendEventKeeps DEF stream_events
<1> QED
  BY <1>1, <1>2, StampKeeps, CommitEventKeeps, BreakKeeps, ReconnectKeeps, ListKeeps DEF FeedNext

LEMMA FeedInvariant == FeedSpec => []FeedInv
BY FeedInvInit, FeedStep, PTL DEF FeedSpec

LEMMA FeedFollows == FeedInv => FeedIsOrdered
<1> SUFFICES ASSUME FeedInv PROVE FeedIsOrdered
  OBVIOUS
<1>1. ASSUME NEW e \in Matching(visible) \ late, got # <<>>, e < got[Len(got)]
      PROVE  e \in ToSet(got)
  <2>1. e \in Nat /\ LastGot \in Nat /\ LastGot = got[Len(got)]
    BY <1>1, EventsAreFinite, LastIsGreatest DEF FeedInv, Matching, LastGot
  <2> QED
    BY <1>1, <2>1 DEF FeedInv, GotInOrder
<1> QED
  BY <1>1 DEF FeedInv, GotInOrder, PagesInOrder, FeedIsOrdered

(* The listing and the stream of events repeat nothing and disturb no      *)
(* order, and skip no event but one that became visible behind a later     *)
(* one, whatever is written meanwhile and wherever the connection breaks,  *)
(* for any limit and any window above it (core/api/events.py).             *)
THEOREM FeedStaysOrdered == FeedSpec => []FeedIsOrdered
BY FeedFollows, FeedInvariant, PTL

(* The stream goes on from an event that is there.                         *)
AnchorIsVisible == stream.anchor \in {0} \union visible

LEMMA AnchorStep ==
    FeedInv /\ AnchorIsVisible /\ [FeedNext]_feedVars => AnchorIsVisible'
<1> SUFFICES ASSUME FeedInv, AnchorIsVisible, [FeedNext]_feedVars PROVE AnchorIsVisible'
  OBVIOUS
<1>1. ASSUME visible \subseteq visible', stream'.anchor = stream.anchor
      PROVE  AnchorIsVisible'
  BY <1>1 DEF AnchorIsVisible
<1>2. CASE Poll
  BY <1>1, <1>2 DEF Poll, FeedInv, FeedFits
<1>3. CASE SendEvent
  <2>1. Min(stream.batch) \in stream.batch
    BY <1>3, LeastOf DEF SendEvent, FeedInv, FeedFits
  <2>2. stream.batch \subseteq visible
    BY DEF FeedInv, BatchFollows, Matching
  <2>3. stream'.anchor = Min(stream.batch) /\ UNCHANGED visible
    BY <1>3 DEF SendEvent, FeedInv, FeedFits
  <2> QED
    BY <2>1, <2>2, <2>3 DEF AnchorIsVisible
<1>4. CASE Break
  BY <1>1, <1>4 DEF Break, FeedInv, FeedFits
<1>5. CASE Reconnect
  <2>1. stream'.anchor = (IF got = <<>> THEN 0 ELSE got[Len(got)]) /\ UNCHANGED visible
    BY <1>5 DEF Reconnect
  <2>2. ASSUME got # <<>> PROVE got[Len(got)] \in visible
    <3>1. got \in Seq(Nat) /\ ToSet(got) \subseteq visible
      BY DEF FeedInv, FeedFits, GotInOrder, Matching
    <3>2. Len(got) \in DOMAIN got
      BY <2>2, <3>1, EmptySeq, LenProperties
    <3> QED
      BY <3>1, <3>2 DEF ToSet
  <2> QED
    BY <2>1, <2>2 DEF AnchorIsVisible
<1>6. CASE UNCHANGED feedVars
  BY <1>1, <1>6 DEF feedVars
<1>7. ASSUME NEW match, StampEvent(match) PROVE AnchorIsVisible'
  BY <1>1, <1>7 DEF StampEvent
<1>8. ASSUME NEW e, CommitEvent(e) PROVE AnchorIsVisible'
  BY <1>1, <1>8 DEF CommitEvent
<1>9. CASE list_events
  BY <1>1, <1>9 DEF list_events
<1> QED
  BY <1>2, <1>3, <1>4, <1>5, <1>6, <1>7, <1>8, <1>9 DEF FeedNext, stream_events

LEMMA FeedTypes == FeedInv /\ AnchorIsVisible => FeedTypeOK
<1> SUFFICES ASSUME FeedInv, AnchorIsVisible PROVE FeedTypeOK
  OBVIOUS
<1>1. Matching(visible) \subseteq visible
  BY DEF Matching
<1>2. ToSet(got) \union stream.batch \subseteq visible /\ Shown \subseteq visible
  BY <1>1 DEF FeedInv, GotInOrder, BatchFollows, PagesInOrder
<1>3. pages.stage \in {"idle", "more", "ended"}
  BY DEF FeedInv, FeedFits
<1> QED
  BY <1>2, <1>3 DEF FeedInv, FeedFits, AnchorIsVisible, FeedTypeOK

-----------------------------------------------------------------------------
(* The source of an artifact.                                              *)

(* The scan: the candidates are taken in their order, a root is selected   *)
(* when it is done, and a file comes from a root that is selected or is    *)
(* being read.                                                             *)
Done == Candidates \ scan.left

CandidatesInOrder == \A c \in Done, d \in scan.left : Precedes(c, d)

IsNext(root) == root \in scan.left /\ \A c \in scan.left \ {root} : Precedes(root, c)

FilesHaveTheirRoot ==
    \A k \in DOMAIN scan.files :
       \/ scan.files[k] \in ToSet(scan.selected)
       \/ scan.seen # {} /\ \E root \in scan.left : scan.files[k] = root.dir /\ IsNext(root)

SelectedAreDone == \A d \in ToSet(scan.selected) : \E c \in Done : c.dir = d

SourceFits ==
    /\ source.paths \in Seq(Subpaths \union {"."}) /\ source.hints \in Seq(dirs)
    /\ scan.left \subseteq Candidates /\ scan.selected \in Seq(dirs)
    /\ \A k \in DOMAIN scan.files : scan.files[k] \in dirs
    /\ scan = [left |-> scan.left, seen |-> scan.seen, files |-> scan.files,
               selected |-> scan.selected, count |-> scan.count,
               truncated |-> scan.truncated]
    /\ scan.truncated \in BOOLEAN

SourceInv ==
    /\ SourceFits /\ CandidatesInOrder /\ FilesHaveTheirRoot /\ SelectedAreDone
    /\ ProvenanceIsNotDenied

(* A candidate of the provenance comes before every hint.                  *)
LEMMA CandidatesFit ==
    ASSUME SourceFits, NEW c \in Candidates
    PROVE  /\ c.dir \in dirs
           /\ c.at[1] \in {1, 2} /\ c.at[2] \in Nat /\ c.at[3] \in Nat
           /\ (c.at[1] = 1 <=> c.dir \in Provenance)
<1>1. CASE c \in _candidate_provenance_roots
  <2>1. PICK r \in DOMAIN RepoRoots, p \in DOMAIN source.paths :
            c = [at |-> <<1, r, p>>, dir |-> <<RepoRoots[r], source.paths[p]>>]
    BY <1>1 DEF _candidate_provenance_roots
  <2>2. c.at[1] = 1 /\ c.at[2] = r /\ c.at[3] = p
    BY <2>1
  <2>3. r \in Nat /\ p \in Nat
    BY SourceAssumption DEF SourceFits
  <2>4. c.dir \in dirs
    BY <1>1 DEF _candidate_provenance_roots
  <2>5. c.dir \in Provenance
    BY <1>1 DEF Provenance
  <2> QED
    BY <2>2, <2>3, <2>4, <2>5
<1>2. CASE c \in _candidate_source_roots /\ c.dir \notin Provenance
  <2>1. PICK h \in DOMAIN source.hints :
            source.hints[h] \in dirs /\ c = [at |-> <<2, h, 1>>, dir |-> source.hints[h]]
    BY <1>2 DEF _candidate_source_roots
  <2>2. c.at[1] = 2 /\ c.at[2] = h /\ c.at[3] = 1 /\ c.dir \in dirs
    BY <2>1
  <2>3. h \in Nat
    BY DEF SourceFits
  <2> QED
    BY <1>2, <2>2, <2>3
<1> QED
  BY <1>1, <1>2 DEF Candidates

(* One root is read at a time.                                             *)
LEMMA NextIsUnique ==
    ASSUME SourceFits, NEW c \in scan.left, NEW d \in scan.left, IsNext(c), IsNext(d)
    PROVE  c = d
<1>1. /\ c.at[1] \in Nat /\ c.at[2] \in Nat /\ c.at[3] \in Nat
      /\ d.at[1] \in Nat /\ d.at[2] \in Nat /\ d.at[3] \in Nat
  BY CandidatesFit DEF SourceFits
<1>2. ASSUME c # d PROVE FALSE
  <2>1. Precedes(c, d) /\ Precedes(d, c)
    BY <1>2 DEF IsNext
  <2> QED
    BY <1>1, <2>1 DEF Precedes
<1> QED
  BY <1>2

LEMMA SourceInvInit == SourceInit => SourceInv
<1> SUFFICES ASSUME SourceInit PROVE SourceInv
  OBVIOUS
<1>1. /\ scan.left = Candidates /\ scan.seen = {} /\ scan.files = <<>> /\ scan.selected = <<>>
      /\ scan.truncated = FALSE /\ resolved = NoAnswer /\ DOMAIN scan.files = {}
  BY DEF SourceInit
<1>2. source.paths \in PathCandidates /\ source.hints \in {<<>>} \union {<<d>> : d \in dirs}
  BY DEF SourceInit
<1>3. source.paths \in Seq(Subpaths \union {"."}) /\ source.hints \in Seq(dirs)
  <2>1. source.paths = <<".">> => \E a \in Subpaths \union {"."} : source.paths = <<a>>
    OBVIOUS
  <2>2. ASSUME NEW a \in Subpaths \union {"."}, source.paths = <<a>>
        PROVE  source.paths \in Seq(Subpaths \union {"."})
    BY <2>2
  <2>3. ASSUME NEW a \in Subpaths, NEW b \in Subpaths, source.paths = <<a, b>>
        PROVE  source.paths \in Seq(Subpaths \union {"."})
    BY <2>3
  <2>4. source.paths \in Seq(Subpaths \union {"."})
    BY <1>2, <2>1, <2>2, <2>3 DEF PathCandidates
  <2>5. source.hints \in Seq(dirs)
    <3>1. CASE source.hints = <<>>
      BY <3>1
    <3>2. ASSUME NEW d \in dirs, source.hints = <<d>>
          PROVE  source.hints \in Seq(dirs)
      BY <3>2
    <3> QED
      BY <1>2, <3>1, <3>2
  <2> QED
    BY <2>4, <2>5
<1>4. ToSet(scan.selected) = {}
  BY <1>1 DEF ToSet
<1>5. SourceFits
  BY <1>1, <1>3 DEF SourceFits, SourceInit
<1> QED
  BY <1>1, <1>4, <1>5 DEF SourceInv, CandidatesInOrder, Done, FilesHaveTheirRoot, SelectedAreDone,
     ProvenanceIsNotDenied

(* While a scan goes on, what it may be of is left alone.                  *)
LEMMA ScanLeaves ==
    ASSUME UNCHANGED <<source, dirs, resolved>>
    PROVE  /\ Candidates' = Candidates /\ Provenance' = Provenance
           /\ resolved = NoAnswer => ProvenanceIsNotDenied'
  BY DEF Candidates, Provenance, _candidate_provenance_roots, _candidate_source_roots,
         ProvenanceIsNotDenied, NoAnswer

(* One lemma for each step of the scan.                                    *)
LEMMA ReadFileKeeps ==
    ASSUME SourceInv, NEW root \in scan.left, NEW f \in Files, ReadFile(root, f)
    PROVE  SourceInv'
<1>1. IsNext(root) /\ resolved = NoAnswer /\ UNCHANGED <<source, dirs, resolved>>
  BY DEF ReadFile, Scanning, IsNext
<1>2. Candidates' = Candidates /\ ProvenanceIsNotDenied'
  BY <1>1, ScanLeaves
<1>3. /\ scan'.left = scan.left /\ scan'.selected = scan.selected /\ scan'.seen # {}
      /\ scan'.truncated = scan.truncated
      /\ scan'.files = [k \in DOMAIN scan.files \union {Key(root, f)} |->
                            IF k = Key(root, f) THEN root.dir ELSE scan.files[k]]
      /\ scan' = [left |-> scan'.left, seen |-> scan'.seen, files |-> scan'.files,
                  selected |-> scan'.selected, count |-> scan'.count,
                  truncated |-> scan'.truncated]
  BY DEF ReadFile, SourceInv, SourceFits
<1> DEFINE key == Key(root, f)
<1> HIDE DEF key
<1>4. scan'.files = [k \in DOMAIN scan.files \union {key} |->
                            IF k = key THEN root.dir ELSE scan.files[k]]
  BY <1>3 DEF key
<1>5. root.dir \in dirs
  BY CandidatesFit DEF SourceInv, SourceFits
<1>6. SourceFits'
  BY <1>1, <1>2, <1>3, <1>4, <1>5 DEF SourceInv, SourceFits
<1>7. CandidatesInOrder' /\ SelectedAreDone'
  BY <1>1, <1>2, <1>3 DEF SourceInv, CandidatesInOrder, SelectedAreDone, Done, Precedes
<1>8. FilesHaveTheirRoot'
  <2>1. \A r \in scan.left : IsNext(r) => IsNext(r)'
    BY <1>3 DEF IsNext, Precedes
  <2> QED
    BY <1>1, <1>3, <1>4, <2>1 DEF SourceInv, FilesHaveTheirRoot
<1> QED
  BY <1>2, <1>6, <1>7, <1>8 DEF SourceInv

LEMMA RootEndsKeeps ==
    ASSUME SourceInv, NEW root \in scan.left, RootEnds(root)
    PROVE  SourceInv'
<1>1. IsNext(root) /\ resolved = NoAnswer /\ UNCHANGED <<source, dirs, resolved>>
  BY DEF RootEnds, Scanning, IsNext
<1>2. Candidates' = Candidates /\ ProvenanceIsNotDenied'
  BY <1>1, ScanLeaves
<1>3. /\ scan'.left = scan.left \ {root} /\ scan'.seen = {} /\ scan'.files = scan.files
      /\ scan'.truncated = scan.truncated
      /\ scan'.selected = IF scan.seen = {} THEN scan.selected ELSE Append(scan.selected, root.dir)
      /\ scan' = [left |-> scan'.left, seen |-> scan'.seen, files |-> scan'.files,
                  selected |-> scan'.selected, count |-> scan'.count,
                  truncated |-> scan'.truncated]
  BY DEF RootEnds, SourceInv, SourceFits
<1>4. root.dir \in dirs
  BY CandidatesFit DEF SourceInv, SourceFits
<1>5. scan'.selected \in Seq(dirs)
  BY <1>3, <1>4 DEF SourceInv, SourceFits
<1>6. SourceFits'
  BY <1>1, <1>2, <1>3, <1>5 DEF SourceInv, SourceFits
<1>7. ToSet(scan'.selected) = IF scan.seen = {} THEN ToSet(scan.selected)
                              ELSE ToSet(scan.selected) \union {root.dir}
  BY <1>3, AppendedToSet DEF SourceInv, SourceFits
<1>8. Done' = Done \union {root}
  BY <1>2, <1>3 DEF Done, SourceInv, SourceFits
<1>9. CandidatesInOrder'
  BY <1>1, <1>3, <1>8 DEF SourceInv, CandidatesInOrder, IsNext, Precedes
<1>10. SelectedAreDone'
  BY <1>7, <1>8 DEF SourceInv, SelectedAreDone
<1>11. FilesHaveTheirRoot'
  <2>1. ASSUME NEW k \in DOMAIN scan.files
        PROVE  scan.files[k] \in ToSet(scan'.selected)
    <3>1. CASE scan.files[k] \in ToSet(scan.selected)
      BY <1>7, <3>1
    <3>2. CASE scan.seen # {} /\ \E r \in scan.left : scan.files[k] = r.dir /\ IsNext(r)
      BY <1>1, <1>7, <3>2, NextIsUnique DEF SourceInv
    <3> QED
      BY <3>1, <3>2 DEF SourceInv, FilesHaveTheirRoot
  <2> QED
    BY <1>3, <2>1 DEF FilesHaveTheirRoot
<1> QED
  BY <1>2, <1>6, <1>9, <1>10, <1>11 DEF SourceInv

LEMMA TruncateKeeps ==
    ASSUME SourceInv, NEW root \in scan.left, Truncate(root)
    PROVE  SourceInv'
<1>1. resolved = NoAnswer /\ UNCHANGED <<source, dirs, resolved>>
  BY DEF Truncate, Scanning
<1>2. Candidates' = Candidates /\ ProvenanceIsNotDenied'
  BY <1>1, ScanLeaves
<1>3. /\ scan'.left = scan.left /\ scan'.seen = scan.seen /\ scan'.files = scan.files
      /\ scan'.selected = scan.selected /\ scan'.truncated = TRUE
      /\ scan' = [left |-> scan'.left, seen |-> scan'.seen, files |-> scan'.files,
                  selected |-> scan'.selected, count |-> scan'.count,
                  truncated |-> scan'.truncated]
  BY DEF Truncate, SourceInv, SourceFits
<1>4. SourceFits'
  BY <1>1, <1>2, <1>3 DEF SourceInv, SourceFits
<1>5. CandidatesInOrder' /\ SelectedAreDone'
  BY <1>1, <1>2, <1>3 DEF SourceInv, CandidatesInOrder, SelectedAreDone, Done, Precedes
<1>6. FilesHaveTheirRoot'
  <2>1. \A r \in scan.left : IsNext(r) => IsNext(r)'
    BY <1>3 DEF IsNext, Precedes
  <2> QED
    BY <1>3, <2>1 DEF SourceInv, FilesHaveTheirRoot
<1> QED
  BY <1>2, <1>4, <1>5, <1>6 DEF SourceInv

(* The answer.                                                             *)
LEMMA AnswerIsTrue ==
    ASSUME SourceInv, resolve_artifact_source
    PROVE  SourceInv'
<1>1. /\ UNCHANGED <<source, dirs, scan>> /\ (scan.truncated \/ scan.left = {})
      /\ resolved' = IF DOMAIN scan.files # {}
                     THEN [mode |-> "resolved_source", branch |-> Branch,
                           origin |-> Origin, files |-> "scanned"]
                     ELSE [mode |-> "packaged_fallback", branch |-> "packaged_fallback",
                           origin |-> "packaged_fallback",
                           files |-> IF source.packaged THEN "packaged" ELSE "none"]
  BY DEF resolve_artifact_source
<1>2. /\ Candidates' = Candidates /\ Provenance' = Provenance
      /\ _candidate_provenance_roots' = _candidate_provenance_roots
  BY <1>1 DEF Candidates, Provenance, _candidate_provenance_roots, _candidate_source_roots
<1>3. /\ SourceFits' /\ CandidatesInOrder' /\ FilesHaveTheirRoot' /\ SelectedAreDone'
  BY <1>1, <1>2 DEF SourceInv, SourceFits, CandidatesInOrder, FilesHaveTheirRoot,
     SelectedAreDone, Done, Precedes, IsNext
<1>4. ASSUME DOMAIN scan.files = {}
      PROVE  ProvenanceIsNotDenied'
  BY <1>1, <1>4 DEF ProvenanceIsNotDenied, FilesFrom
<1>5. ASSUME DOMAIN scan.files # {}
      PROVE  ProvenanceIsNotDenied'
  <2>1. resolved'.mode = "resolved_source" /\ resolved'.branch = Branch
    BY <1>1, <1>5
  <2>2. FilesFrom(dirs)'
    BY <1>1, <1>5 DEF FilesFrom, SourceInv, SourceFits
  <2>3. ASSUME FilesFrom(Provenance) PROVE Branch = "provenance_backed"
    <3>1. PICK k \in DOMAIN scan.files : scan.files[k] \in Provenance
      BY <2>3 DEF FilesFrom
    <3>2. CASE scan.files[k] \in ToSet(scan.selected)
      BY <3>1, <3>2 DEF Branch
    <3>3. CASE \E root \in scan.left : scan.files[k] = root.dir /\ IsNext(root)
      <4>1. PICK root \in scan.left : scan.files[k] = root.dir
        BY <3>3
      <4>2. root.at[1] = 1
        BY <3>1, <4>1, CandidatesFit DEF SourceInv, SourceFits
      <4>3. ASSUME NEW d \in ToSet(scan.selected) PROVE d \in Provenance
        <5>1. PICK c \in Done : c.dir = d
          BY DEF SourceInv, SelectedAreDone
        <5>2. Precedes(c, root) /\ c \in Candidates
          BY DEF SourceInv, CandidatesInOrder, Done
        <5>3. c.at[1] \in {1, 2} /\ (c.at[1] = 1 <=> c.dir \in Provenance)
          BY <5>2, CandidatesFit DEF SourceInv
        <5>4. c.at[1] = 1
          BY <4>2, <5>2, <5>3 DEF Precedes
        <5> QED
          BY <5>1, <5>3, <5>4
      <4> QED
        BY <3>1, <4>3 DEF Branch
    <3> QED
      BY <3>2, <3>3 DEF SourceInv, FilesHaveTheirRoot
  <2>4. ASSUME Branch = "provenance_backed", ~scan.truncated
        PROVE  ToSet(scan.selected) \cap Provenance # {}
    <3>1. ToSet(scan.selected) # {}
      BY <1>1, <1>5, <2>4 DEF SourceInv, FilesHaveTheirRoot
    <3> QED
      BY <2>4, <3>1 DEF Branch
  <2>5. FilesFrom(Provenance)' <=> FilesFrom(Provenance)
    BY <1>1, <1>2 DEF FilesFrom
  <2>6. resolved' # NoAnswer
    BY <2>1 DEF NoAnswer
  <2> QED
    BY <1>1, <1>2, <2>1, <2>2, <2>3, <2>4, <2>5 DEF ProvenanceIsNotDenied
<1> QED
  BY <1>3, <1>4, <1>5 DEF SourceInv

LEMMA SourceStep == SourceInv /\ [SourceNext]_sourceVars => SourceInv'
<1> SUFFICES ASSUME SourceInv, [SourceNext]_sourceVars PROVE SourceInv'
  OBVIOUS
<1>1. CASE UNCHANGED sourceVars
  <2>1. UNCHANGED <<source, dirs, scan, resolved>>
    BY <1>1 DEF sourceVars
  <2>2. /\ _candidate_provenance_roots' = _candidate_provenance_roots
        /\ _candidate_source_roots' = _candidate_source_roots
    BY <2>1 DEF _candidate_provenance_roots, _candidate_source_roots
  <2>3. Provenance' = Provenance /\ Candidates' = Candidates
    BY <2>2 DEF Provenance, Candidates
  <2>4. ProvenanceIsNotDenied'
    BY <2>1, <2>3 DEF SourceInv, ProvenanceIsNotDenied, FilesFrom
  <2>5. SourceFits' /\ CandidatesInOrder' /\ FilesHaveTheirRoot' /\ SelectedAreDone'
    BY <2>1, <2>3 DEF SourceInv, SourceFits, CandidatesInOrder, FilesHaveTheirRoot,
       SelectedAreDone, Done, Precedes, IsNext
  <2> QED
    BY <2>4, <2>5 DEF SourceInv
<1>2. CASE _read_source_roots
  BY <1>2, ReadFileKeeps, TruncateKeeps, RootEndsKeeps DEF _read_source_roots
<1>3. CASE resolve_artifact_source
  BY <1>3, AnswerIsTrue
<1> QED
  BY <1>1, <1>2, <1>3 DEF SourceNext

LEMMA SourceInvariant == SourceSpec => []SourceInv
BY SourceInvInit, SourceStep, PTL DEF SourceSpec

(* The answer of a resolution tells whether its files are those of the     *)
(* provenance, for any repositories, paths, hints and limits               *)
(* (core/artifact_source_resolution.py).                                   *)
THEOREM ProvenanceIsNeverDenied == SourceSpec => []ProvenanceIsNotDenied
<1>1. SourceInv => ProvenanceIsNotDenied
  BY DEF SourceInv
<1> QED
  BY <1>1, SourceInvariant, PTL

(* A scan reads files of existing directories up to its limit, and says    *)
(* where its answer is from.                                               *)
ScanIsLimited ==
    /\ dirs \subseteq Directories /\ scan.seen \subseteq Files /\ scan.count \in 0..MaxFiles
    /\ resolved # NoAnswer =>
           /\ resolved.mode \in {"resolved_source", "packaged_fallback"}
           /\ resolved.origin \in {"github", "mirror", "filesystem_hint", "packaged_fallback"}

LEMMA ScanStart == SourceInit => ScanIsLimited
BY SourceAssumption DEF SourceInit, ScanIsLimited

LEMMA ScanStep ==
    SourceInv /\ ScanIsLimited /\ [SourceNext]_sourceVars => ScanIsLimited'
<1> SUFFICES ASSUME SourceInv, ScanIsLimited, [SourceNext]_sourceVars
             PROVE  ScanIsLimited'
  OBVIOUS
<1>1. scan = [left |-> scan.left, seen |-> scan.seen, files |-> scan.files,
              selected |-> scan.selected, count |-> scan.count, truncated |-> scan.truncated]
  BY DEF SourceInv, SourceFits
<1>2. ASSUME UNCHANGED <<source, dirs, resolved>>, resolved = NoAnswer,
             scan'.seen \subseteq Files, scan'.count \in 0..MaxFiles
      PROVE  ScanIsLimited'
  BY <1>2 DEF ScanIsLimited
<1>3. ASSUME NEW root \in scan.left, NEW f \in Files, ReadFile(root, f)
      PROVE  ScanIsLimited'
  <2>1. scan'.seen = scan.seen \union {f} /\ scan'.count = scan.count + 1
    BY <1>1, <1>3 DEF ReadFile
  <2>2. scan.count < MaxFiles /\ UNCHANGED <<source, dirs, resolved>> /\ resolved = NoAnswer
    BY <1>3 DEF ReadFile, Scanning
  <2>3. scan'.seen \subseteq Files /\ scan'.count \in 0..MaxFiles
    BY <2>1, <2>2, SourceAssumption DEF ScanIsLimited
  <2> QED
    BY <1>2, <2>2, <2>3
<1>4. ASSUME NEW root \in scan.left, Truncate(root) PROVE ScanIsLimited'
  <2>1. scan'.seen = scan.seen /\ scan'.count = scan.count
    BY <1>1, <1>4 DEF Truncate
  <2> QED
    BY <1>2, <1>4, <2>1 DEF Truncate, Scanning, ScanIsLimited
<1>5. ASSUME NEW root \in scan.left, RootEnds(root) PROVE ScanIsLimited'
  <2>1. scan'.seen = {} /\ scan'.count = scan.count
    BY <1>1, <1>5 DEF RootEnds
  <2> QED
    BY <1>2, <1>5, <2>1 DEF RootEnds, Scanning, ScanIsLimited
<1>6. CASE resolve_artifact_source
  <2>1. UNCHANGED <<source, dirs, scan>>
    BY <1>6 DEF resolve_artifact_source
  <2>2. /\ resolved'.mode \in {"resolved_source", "packaged_fallback"}
        /\ resolved'.origin \in {"github", "mirror", "filesystem_hint", "packaged_fallback"}
    <3>1. Origin \in {"github", "mirror", "filesystem_hint"}
      BY DEF Origin
    <3> QED
      BY <1>6, <3>1 DEF resolve_artifact_source
  <2> QED
    BY <2>1, <2>2 DEF ScanIsLimited
<1>7. CASE UNCHANGED sourceVars
  BY <1>7 DEF sourceVars, ScanIsLimited
<1> QED
  BY <1>3, <1>4, <1>5, <1>6, <1>7 DEF SourceNext, _read_source_roots

LEMMA SourceTypes == SourceInv /\ ScanIsLimited => SourceTypeOK
<1> SUFFICES ASSUME SourceInv, ScanIsLimited PROVE SourceTypeOK
  OBVIOUS
<1>1. scan.selected \in Seq(dirs)
  BY DEF SourceInv, SourceFits
<1>2. ToSet(scan.selected) \subseteq dirs
  BY <1>1, ElementOfSeq DEF ToSet
<1> QED
  BY <1>2 DEF SourceInv, SourceFits, ScanIsLimited, SourceTypeOK

-----------------------------------------------------------------------------
(* The mounts of the kernel.                                               *)

(* The start of the kernel reaches the roles only past the check, and what *)
(* is yet to be registered comes behind what is routed.                    *)
RootIsOfOneArtifact ==
    loader.at \in {"register", "loaded"} => \A a, b \in RootArtifacts : a = b

RootUiAt(i) == mounted[i].role = "ui_mount" /\ mounted[i].path = "/"

RootUiComesLast ==
    /\ role_jobs \subseteq Jobs
    /\ loader.at \in {"fetch", "plan"} => role_jobs = {} /\ mounted = <<>>
    /\ \A i \in DOMAIN mounted : RootUiAt(i) =>
          /\ mounted[i].artifact \in RootArtifacts
          /\ \A job \in role_jobs : _role_priority(job.role) >= 2

MountRow == [artifact : Nat, role : {"api_router", "ui_mount"}, path : SubPaths \union {"none", "/"}]

MountsFit ==
    /\ bindings \in Seq(BindingSet) /\ planned \subseteq DOMAIN bindings
    /\ loader \in [at : {"fetch", "plan", "register", "raised", "loaded"}, next : Nat \ {0}]
    /\ mounted \in Seq(MountRow)

MountInv == MountsFit /\ RootIsOfOneArtifact /\ RootUiComesLast /\ RootUiHidesNothing

(* Routers come before every user interface, the one at "/" last.          *)
LEMMA Priorities ==
    ASSUME NEW role
    PROVE  /\ role.role = "api_router" => _role_priority(role) = 0
           /\ role.role = "ui_mount" =>
                  _role_priority(role) = IF _role_mount_path(role) = "/" THEN 2 ELSE 1
<1>1. CASE role.role = "api_router"
  BY <1>1 DEF _role_priority
<1>2. CASE role.role = "ui_mount" /\ _role_mount_path(role) = "/"
  BY <1>2 DEF _role_priority
<1>3. CASE role.role = "ui_mount" /\ _role_mount_path(role) # "/"
  BY <1>3 DEF _role_priority
<1> QED
  BY <1>1, <1>2, <1>3

(* What a manifest may ask for.                                            *)
LEMMA JobsFit ==
    ASSUME MountsFit, NEW job \in Jobs
    PROVE  /\ job.artifact \in Nat /\ job.role \in RoleRecords
           /\ job.role.path \in SubPaths \union {"none", "/"}
           /\ (job.role.role = "ui_mount" /\ _role_mount_path(job.role) = "/"
                  => job.artifact \in RootArtifacts)
<1>1. PICK a \in planned : \E i \in DOMAIN bindings[a].roles :
          job = [artifact |-> a, place |-> i, role |-> bindings[a].roles[i]]
  BY DEF Jobs
<1>2. PICK i \in DOMAIN bindings[a].roles :
          job = [artifact |-> a, place |-> i, role |-> bindings[a].roles[i]]
  BY <1>1
<1>3. a \in Nat /\ bindings[a] \in BindingSet
  BY DEF MountsFit
<1>4. bindings[a].roles[i] \in RoleRecords
  <2>1. CASE bindings[a].roles = <<>>
    BY <1>2, <2>1
  <2>2. CASE bindings[a].roles \in UNION {[1..n -> RoleRecords] : n \in 0..MaxRoles}
    BY <1>2, <2>2
  <2> QED
    BY <1>3, <2>1, <2>2 DEF BindingSet
<1>5. bindings[a].roles[i].path \in SubPaths \union {"none", "/"}
  <2> DEFINE role == bindings[a].roles[i]
  <2>1. CASE role \in [role : {"api_router"}, path : SubPaths \cup {"none", "/"}, form : {"router", "asgi"}]
    BY <2>1
  <2>2. CASE role \in [role : {"ui_mount"}, path : SubPaths \cup {"none", "/"}, form : {"served", "broken"}]
    BY <2>2
  <2>3. CASE role = [role |-> "worker", path |-> "none", form |-> "served"]
    <3>1. role.path = "none"
      BY <2>3
    <3> QED
      BY <3>1
  <2> QED
    BY <1>4, <2>1, <2>2, <2>3 DEF RoleRecords
<1> QED
  BY <1>1, <1>2, <1>3, <1>4, <1>5 DEF RootArtifacts

LEMMA MountInvInit == MountInit => MountInv
<1> SUFFICES ASSUME MountInit PROVE MountInv
  OBVIOUS
<1>1. MountsFit
  <2>1. PICK n \in 0..MaxArtifacts : bindings \in [1..n -> BindingSet]
    BY DEF MountInit
  <2>2. bindings \in Seq(BindingSet)
    BY <2>1
  <2>3. mounted \in Seq(MountRow)
    BY DEF MountInit
  <2> QED
    BY <2>2, <2>3 DEF MountInit, MountsFit
<1>2. mounted = <<>> /\ DOMAIN mounted = {} /\ role_jobs = {} /\ loader.at = "fetch"
  BY DEF MountInit
<1>3. RootUiHidesNothing /\ RootIsOfOneArtifact /\ RootUiComesLast
  BY <1>2 DEF RootUiHidesNothing, RootIsOfOneArtifact, RootUiComesLast
<1> QED
  BY <1>1, <1>3 DEF MountInv

(* One registration: what is left has no lower priority.                   *)
LEMMA RegistrationKeeps ==
    ASSUME MountInv, NEW job \in role_jobs,
           _register_api_router(job) \/ _register_ui_mount(job) \/ AcknowledgeWorker(job)
    PROVE  MountInv'
<1>1. /\ loader.at = "register" /\ \A other \in role_jobs \ {job} : Sorted(job, other)
      /\ bindings' = bindings /\ planned' = planned
  BY DEF _register_api_router, _register_ui_mount, AcknowledgeWorker, Registering
<1>2. Jobs' = Jobs /\ RootArtifacts' = RootArtifacts
  BY <1>1 DEF Jobs, RootArtifacts
<1>3. loader' \in {loader, [loader EXCEPT !.at = "raised"]}
  BY DEF _register_api_router, _register_ui_mount, AcknowledgeWorker, Mount,
         RegistrationRaises, LoadingRaises
<1>4. role_jobs' \in {role_jobs, role_jobs \ {job}}
  BY DEF _register_api_router, _register_ui_mount, AcknowledgeWorker, Mount,
         RegistrationRaises
<1>5. /\ job \in Jobs /\ job.artifact \in Nat /\ job.role \in RoleRecords
      /\ job.role.path \in SubPaths \union {"none", "/"}
  BY JobsFit DEF MountInv, RootUiComesLast
<1>6. \A other \in role_jobs' : _role_priority(other.role) >= _role_priority(job.role)
                                \/ role_jobs' = role_jobs
  <2>1. ASSUME NEW other \in role_jobs \ {job}
        PROVE  _role_priority(other.role) >= _role_priority(job.role)
    <3>1. other.role \in RoleRecords
      BY <2>1, JobsFit DEF MountInv, RootUiComesLast
    <3>2. _role_priority(other.role) \in Nat /\ _role_priority(job.role) \in Nat
      BY DEF _role_priority
    <3>3. Sorted(job, other)
      BY <1>1
    <3> QED
      BY <3>2, <3>3 DEF Sorted, InManifest
  <2> QED
    BY <1>4, <2>1
<1>7. CASE mounted' = mounted
  <2>1. MountsFit' /\ RootIsOfOneArtifact'
    BY <1>1, <1>2, <1>3, <1>7 DEF MountInv, MountsFit, RootIsOfOneArtifact
  <2>2. RootUiComesLast'
    BY <1>1, <1>2, <1>3, <1>4, <1>7 DEF MountInv, MountsFit, RootUiComesLast, RootUiAt
  <2>3. RootUiHidesNothing'
    BY <1>7 DEF MountInv, RootUiHidesNothing
  <2> QED
    BY <2>1, <2>2, <2>3 DEF MountInv
<1>8. CASE mounted' # mounted
  <2>1. PICK path :
          /\ Mount(job, path) /\ path \in SubPaths \union {"none", "/"}
          /\ job.role.role \in {"api_router", "ui_mount"}
          /\ job.role.role = "ui_mount" => path = _role_mount_path(job.role)
    <3>1. ~RegistrationRaises /\ ~AcknowledgeWorker(job)
      BY <1>8 DEF RegistrationRaises, AcknowledgeWorker
    <3>2. CASE _register_api_router(job)
      <4> DEFINE p == IF job.role.form = "asgi" /\ job.role.path = "none" THEN "/" ELSE job.role.path
      <4>1. Mount(job, p) /\ job.role.role = "api_router"
        BY <3>1, <3>2 DEF _register_api_router, Registering
      <4>2. p \in SubPaths \union {"none", "/"}
        BY <1>5
      <4> QED
        BY <4>1, <4>2
    <3>3. CASE _register_ui_mount(job)
      <4>1. Mount(job, _role_mount_path(job.role)) /\ job.role.role = "ui_mount"
        BY <3>1, <3>3 DEF _register_ui_mount, Registering
      <4>2. _role_mount_path(job.role) \in SubPaths \union {"none", "/"}
        BY <1>5 DEF _role_mount_path
      <4> QED
        BY <4>1, <4>2
    <3> QED
      BY <3>1, <3>2, <3>3
  <2> DEFINE new == [artifact |-> job.artifact, role |-> job.role.role, path |-> path]
             n == Len(mounted) + 1
  <2>2. mounted' = Append(mounted, new) /\ new \in MountRow
    BY <1>5, <2>1 DEF Mount, MountRow
  <2>3. role_jobs' = role_jobs \ {job} /\ loader' = loader
    BY <2>1 DEF Mount
  <2>4. /\ Len(mounted) \in Nat /\ DOMAIN mounted = 1..Len(mounted) /\ DOMAIN mounted' = 1..n
        /\ mounted'[n] = new /\ \A i \in DOMAIN mounted : mounted'[i] = mounted[i]
    BY <2>2 DEF MountInv, MountsFit
  <2>5. MountsFit' /\ RootIsOfOneArtifact'
    BY <1>1, <1>2, <2>2, <2>3 DEF MountInv, MountsFit, RootIsOfOneArtifact
  <2>6. new.role = "ui_mount" /\ new.path = "/" =>
            new.artifact \in RootArtifacts /\ _role_priority(job.role) = 2
    <3>1. ASSUME new.role = "ui_mount", new.path = "/"
          PROVE  new.artifact \in RootArtifacts /\ _role_priority(job.role) = 2
      <4>1. job.role.role = "ui_mount" /\ _role_mount_path(job.role) = "/"
        BY <2>1, <3>1
      <4> QED
        BY <1>5, <4>1, JobsFit, Priorities DEF MountInv
    <3> QED
      BY <3>1
  <2>7. RootUiComesLast'
    <3>1. role_jobs' \subseteq Jobs' /\ loader'.at \notin {"fetch", "plan"}
      BY <1>1, <1>2, <2>3 DEF MountInv, RootUiComesLast
    <3>2. ASSUME NEW i \in DOMAIN mounted', RootUiAt(i)'
          PROVE  /\ mounted'[i].artifact \in RootArtifacts
                 /\ \A other \in role_jobs' : _role_priority(other.role) >= 2
      <4>1. CASE i \in DOMAIN mounted
        BY <2>3, <2>4, <3>2, <4>1 DEF MountInv, RootUiComesLast, RootUiAt
      <4>2. CASE i = n
        <5>1. new.artifact \in RootArtifacts /\ _role_priority(job.role) = 2
          BY <2>4, <2>6, <3>2, <4>2 DEF RootUiAt
        <5>2. role_jobs' # role_jobs
          BY <2>3
        <5>3. \A other \in role_jobs' : _role_priority(other.role) >= 2
          BY <1>6, <5>1, <5>2
        <5> QED
          BY <2>4, <4>2, <5>1, <5>3
      <4> QED
        BY <2>4, <4>1, <4>2
    <3> QED
      BY <1>2, <3>1, <3>2 DEF RootUiComesLast
  <2>8. RootUiHidesNothing'
    <3>1. ASSUME NEW i \in DOMAIN mounted, RootUiAt(i)
          PROVE  new.artifact = mounted[i].artifact /\ new.path = "/"
      <4>1. mounted[i].artifact \in RootArtifacts /\ _role_priority(job.role) >= 2
        BY <3>1 DEF MountInv, RootUiComesLast
      <4>2. job.role.role = "ui_mount" /\ _role_mount_path(job.role) = "/"
        BY <2>1, <4>1, Priorities
      <4>3. new.artifact \in RootArtifacts /\ new.path = "/"
        BY <2>1, <2>6, <4>2
      <4> QED
        BY <1>1, <4>1, <4>3 DEF MountInv, RootIsOfOneArtifact
    <3> QED
      BY <2>4, <3>1 DEF MountInv, RootUiHidesNothing, RootUiAt
  <2> QED
    BY <2>5, <2>7, <2>8 DEF MountInv
<1> QED
  BY <1>7, <1>8

LEMMA MountStep == MountInv /\ [MountNext]_mountVars => MountInv'
<1> SUFFICES ASSUME MountInv, [MountNext]_mountVars PROVE MountInv'
  OBVIOUS
<1>1. CASE UNCHANGED mountVars
  BY <1>1 DEF mountVars, MountInv, MountsFit, RootIsOfOneArtifact, RootUiComesLast, RootUiAt,
              RootUiHidesNothing, Jobs, RootArtifacts
<1>2. CASE _fetch_workspace_artifacts
  <2>1. /\ bindings' = bindings /\ planned' = planned /\ role_jobs' = role_jobs
        /\ mounted' = mounted /\ role_jobs = {} /\ mounted = <<>>
        /\ loader'.at \in {"plan", "raised"} /\ MountsFit'
    BY <1>2 DEF _fetch_workspace_artifacts, LoadingRaises, MountInv, MountsFit, RootUiComesLast
  <2> QED
    BY <2>1 DEF MountInv, RootIsOfOneArtifact, RootUiComesLast, RootUiHidesNothing
<1>3. CASE PlanBinding
  <2>1. /\ bindings' = bindings /\ role_jobs' = role_jobs
        /\ mounted' = mounted /\ role_jobs = {} /\ mounted = <<>>
    BY <1>3 DEF PlanBinding, MountInv, RootUiComesLast
  <2>2. /\ loader.next \in DOMAIN bindings /\ planned' \subseteq planned \union {loader.next}
        /\ loader' = [loader EXCEPT !.next = loader.next + 1] /\ loader.at = "plan"
    <3>1. loader.next \in Nat \ {0} /\ loader.next <= Len(bindings)
      BY <1>3 DEF PlanBinding, MountInv, MountsFit
    <3>2. DOMAIN bindings = 1..Len(bindings) /\ Len(bindings) \in Nat
      BY DEF MountInv, MountsFit
    <3>3. planned' \subseteq planned \union {loader.next}
      BY <1>3 DEF PlanBinding
    <3> QED
      BY <1>3, <3>1, <3>2, <3>3 DEF PlanBinding
  <2>3. loader' \in [at : {"fetch", "plan", "register", "raised", "loaded"}, next : Nat \ {0}]
    BY <2>2 DEF MountInv, MountsFit
  <2>4. MountsFit' /\ loader'.at = "plan"
    BY <2>1, <2>2, <2>3 DEF MountInv, MountsFit
  <2> QED
    BY <2>1, <2>4 DEF MountInv, RootIsOfOneArtifact, RootUiComesLast, RootUiHidesNothing
<1>4. CASE _validate_root_mount_collisions
  <2>1. /\ bindings' = bindings /\ planned' = planned
        /\ mounted' = mounted /\ role_jobs = {} /\ mounted = <<>> /\ MountsFit'
    BY <1>4 DEF _validate_root_mount_collisions, LoadingRaises, MountInv, MountsFit,
                RootUiComesLast
  <2>2. Jobs' = Jobs /\ RootArtifacts' = RootArtifacts
    BY <2>1 DEF Jobs, RootArtifacts
  <2>3. /\ role_jobs' \subseteq Jobs
        /\ \/ loader'.at = "raised"
           \/ loader'.at = "register" /\ \A a, b \in RootArtifacts : a = b
    BY <1>4, <2>1 DEF _validate_root_mount_collisions, LoadingRaises, MountInv, MountsFit
  <2> QED
    BY <2>1, <2>2, <2>3 DEF MountInv, RootIsOfOneArtifact, RootUiComesLast, RootUiHidesNothing
<1>5. ASSUME NEW job \in role_jobs,
             _register_api_router(job) \/ _register_ui_mount(job) \/ AcknowledgeWorker(job)
      PROVE  MountInv'
  BY <1>5, RegistrationKeeps
<1>6. CASE load_workspace_artifacts_into_app
  <2>1. /\ bindings' = bindings /\ planned' = planned /\ role_jobs' = role_jobs
        /\ mounted' = mounted /\ loader.at = "register" /\ loader'.at = "loaded" /\ MountsFit'
    BY <1>6 DEF load_workspace_artifacts_into_app, MountInv, MountsFit
  <2>2. Jobs' = Jobs /\ RootArtifacts' = RootArtifacts
    BY <2>1 DEF Jobs, RootArtifacts
  <2> QED
    BY <2>1, <2>2 DEF MountInv, RootIsOfOneArtifact, RootUiComesLast, RootUiAt, RootUiHidesNothing
<1> QED
  BY <1>1, <1>2, <1>3, <1>4, <1>5, <1>6 DEF MountNext

LEMMA MountInvariant == MountSpec => []MountInv
BY MountInvInit, MountStep, PTL DEF MountSpec

(* A user interface at "/" hides no other artifact, for any bindings and   *)
(* manifests (core/kernel_loader.py).                                      *)
THEOREM RootUiNeverHides == MountSpec => []RootUiHidesNothing
<1>1. MountInv => RootUiHidesNothing
  BY DEF MountInv
<1> QED
  BY <1>1, MountInvariant, PTL

(* What is routed comes from a manifest that was read.                     *)
MountedArePlanned == \A i \in DOMAIN mounted : mounted[i].artifact \in planned

LEMMA MountedStart == MountInit => MountedArePlanned
<1> SUFFICES ASSUME MountInit PROVE MountedArePlanned
  OBVIOUS
<1>1. DOMAIN mounted = {}
  BY DEF MountInit
<1> QED
  BY <1>1 DEF MountedArePlanned

LEMMA MountedStep ==
    MountInv /\ MountedArePlanned /\ [MountNext]_mountVars => MountedArePlanned'
<1> SUFFICES ASSUME MountInv, MountedArePlanned, [MountNext]_mountVars PROVE MountedArePlanned'
  OBVIOUS
<1>1. planned \subseteq planned'
  BY DEF MountNext, mountVars, _fetch_workspace_artifacts, PlanBinding,
     _validate_root_mount_collisions, _register_api_router, _register_ui_mount,
     AcknowledgeWorker, Registering, load_workspace_artifacts_into_app
<1>2. CASE UNCHANGED mounted
  BY <1>1, <1>2 DEF MountedArePlanned
<1>3. ASSUME NEW job \in role_jobs, NEW path, Mount(job, path)
      PROVE  MountedArePlanned'
  <2> DEFINE new == [artifact |-> job.artifact, role |-> job.role.role, path |-> path]
  <2>1. mounted' = Append(mounted, new) /\ new.artifact = job.artifact
    BY <1>3 DEF Mount
  <2>2. job \in Jobs
    BY DEF MountInv, RootUiComesLast
  <2>3. new.artifact \in planned
    BY <2>1, <2>2 DEF Jobs
  <2>4. mounted \in Seq(MountRow)
    BY DEF MountInv, MountsFit
  <2> HIDE DEF new
  <2>5. \A i \in DOMAIN mounted' :
            mounted'[i] = new \/ (i \in DOMAIN mounted /\ mounted'[i] = mounted[i])
    BY <2>1, <2>4
  <2> QED
    BY <1>1, <2>3, <2>5 DEF MountedArePlanned
<1> QED
  BY <1>2, <1>3 DEF MountNext, mountVars, _fetch_workspace_artifacts, PlanBinding,
     _validate_root_mount_collisions, _register_api_router, _register_ui_mount,
     RegistrationRaises, AcknowledgeWorker, load_workspace_artifacts_into_app

LEMMA MountTypes == MountInv /\ MountedArePlanned => MountTypeOK
BY DEF MountInv, MountsFit, RootUiComesLast, MountedArePlanned, MountTypeOK
=============================================================================
