---------------------------- MODULE McpDelivery -----------------------------
(***************************************************************************)
(* How the MCP adapter delivers a tool call to the control plane           *)
(* (core/mcp/xyn_api_adapter.py).  The control plane answers under several *)
(* base URLs (the configured one, its derived host names, the seed and the *)
(* public URL) and two path prefixes.  A call tries them in turn: it       *)
(* prefers the base that answered last (the binding), repeats an exchange  *)
(* with the configured bearer when the caller's one is refused, rebinds to *)
(* another base when the route or the session looks stale, and reissues    *)
(* reads elsewhere after a transport error.  The tools are synchronous, so *)
(* one call runs at a time; the adapter object outlives the calls.         *)
(*                                                                         *)
(* One step is one HTTP exchange.  An answer can be lost after the control *)
(* plane has acted, so a call that changes something must know when to     *)
(* stop: "applied" counts how often the current call took effect.          *)
(***************************************************************************)
EXTENDS Naturals, Sequences, SequencesExt

CONSTANTS
    Bases,      \* the base URLs in the configured order, a sequence
    Surfaces,   \* what an answer offers: next actions, a prompt, or nothing
    MaxCalls,   \* bound: calls made in one behaviour
    NoBase

ASSUME BasesAssumption ==
    /\ Bases \in Seq(ToSet(Bases)) /\ Len(Bases) > 0 /\ IsInjective(Bases)
    /\ NoBase \notin ToSet(Bases)
    /\ Surfaces \subseteq {"actions", "prompt", "none"} /\ MaxCalls \in Nat

VARIABLES
    binding,    \* _planner_binding_state: the base that answered last and
                \* whether it ever offered actions (what it also keeps of
                \* the last failure is only reported)
    bearers,    \* the caller's bearer differs from the configured one
    call,       \* the call in progress, or the last one
    applied,    \* how often that call changed the control plane
    calls       \* calls made so far

mcpVars == <<binding, bearers, call, applied, calls>>

-----------------------------------------------------------------------------
(* The tools.  A control action and the creation of a session are POSTs    *)
(* that are not reissued after a transport error, the decision of a        *)
(* checkpoint and the rerun of a run are POSTs that are.  The paths of a   *)
(* rerun are no planner paths: they neither use nor move the binding.      *)

Kinds == {"control", "decide", "rerun", "read"}
Posts(kind) == kind # "read"
Reissued(kind) == kind # "control"
IsPlanner(kind) == kind # "rerun"
Paths == <<"/xyn/api", "/api/v1">>

(* What an exchange can end with: 2xx, a login redirect, 401 or 403 with   *)
(* and without the error "unauthorized", 404 or 405, 400, 409 or 422, 429, *)
(* 503, another 5xx, or no answer.                                         *)
Answers == {"ok", "redirect", "unauthorized", "forbidden", "missing",
            "invalid", "conflict", "throttled", "unavailable", "error", "none"}
ServerErrors == {"unavailable", "error", "unreachable"}

classify_error(r) ==
    CASE r \in {"redirected", "unauthorized", "forbidden"} -> "auth_expired"
      [] r = "missing" -> "binding_rotated"
      [] r \in {"invalid", "conflict"} -> "backend_validation_error"
      [] r \in {"throttled", "unreachable"} -> "transient_transport_failure"
      [] r \in {"unavailable", "error"} -> "backend_server_error"
      [] OTHER -> "unknown_mcp_failure"

(* The bases but for one of them.                                          *)
Without(base) == RemoveAt(Bases, CHOOSE i \in DOMAIN Bases : Bases[i] = base)

(* The order in which a planner call tries the bases: the bound one first, *)
(* or, on a forced refresh, last.                                          *)
Reordered(refresh) ==
    IF binding.base = NoBase THEN Bases
    ELSE IF refresh THEN Append(Without(binding.base), binding.base)
    ELSE <<binding.base>> \o Without(binding.base)

(* A surface without actions or prompt counts as stale once the binding    *)
(* has offered actions.                                                    *)
SurfaceIsEmpty(surface) == surface = "none" /\ binding.surface

Succeeded(b, surface) ==
    [base |-> b, surface |-> binding.surface \/ surface = "actions"]

-----------------------------------------------------------------------------
(* The attempts of a call: every base with every path, in order.           *)
Attempts(bases) ==
    [n \in 1..2 * Len(bases) |-> <<bases[(n + 1) \div 2], Paths[2 - (n % 2)]>>]

Idle == [kind |-> "read", stage |-> "idle", todo |-> <<>>, at |-> <<>>,
         spare |-> <<>>, nested |-> FALSE, static |-> FALSE, out |-> "",
         delivery |-> ""]

McpInit ==
    /\ binding = [base |-> NoBase, surface |-> FALSE]
    /\ bearers = FALSE
    /\ call = Idle /\ applied = 0 /\ calls = 0

(* A tool is called, with a bearer that differs from the configured one or *)
(* not: the loop of _request_with_fallback_paths starts.                   *)
StartCall(kind, differs) ==
    LET attempts == Attempts(IF IsPlanner(kind) THEN Reordered(FALSE) ELSE Bases)
    IN  /\ call.stage \in {"idle", "done"} /\ calls < MaxCalls
        /\ calls' = calls + 1 /\ applied' = 0 /\ bearers' = differs
        /\ call' = [Idle EXCEPT !.kind = kind, !.stage = "send",
                                !.at = Head(attempts), !.todo = Tail(attempts)]
        /\ UNCHANGED binding

(* The call ends with result r.  What it tells the caller of a POST: it    *)
(* was applied, it was not sent, or nobody knows.                          *)
Delivery(r) ==
    CASE ~Posts(call.kind) -> ""
      [] Posts(call.kind) /\ r = "ok" -> "definitely_applied"
      [] Posts(call.kind) /\ r \in ServerErrors -> "unknown"
      [] OTHER -> "not_sent"

Ended(c, r) ==
    [c EXCEPT !.stage = "done", !.out = r, !.delivery = Delivery(r),
              !.todo = <<>>, !.at = <<>>, !.spare = <<>>,
              !.nested = FALSE]

(* The next attempt, or the end.  The first 401 or 403, then the first     *)
(* result, is what a search without success returns; a read whose first    *)
(* answer was an empty surface fails with it.                               *)
Search(c, r) ==
    LET kept == IF c.out = "" \/ (r \in {"redirected", "unauthorized", "forbidden"}
                                  /\ c.out \notin {"redirected", "unauthorized", "forbidden"})
                THEN r ELSE c.out
    IN  IF c.todo = <<>> THEN Ended(c, kept)
        ELSE [c EXCEPT !.out = kept, !.stage = "send", !.at = Head(c.todo),
                       !.todo = Tail(c.todo), !.nested = FALSE]

\* Mutant: a POST is also repeated after a server error.
MayTryElsewhereAlways(r) ==
    r \in {"missing", "invalid", "redirected", "unauthorized",
           "forbidden", "unavailable", "unreachable"}

(* A POST is repeated elsewhere only after a 404 or 405, which says that   *)
(* no route took it; a read is also after a 400, 401, 403 or 503.          *)
MayTryElsewhere(r) ==
    IF Posts(call.kind) THEN r = "missing"
    ELSE r \in {"missing", "invalid", "redirected", "unauthorized",
                "forbidden", "unavailable", "unreachable"}

(* _request returns failure r.                                             *)
ReturnFailure(r) ==
    /\ call' = IF MayTryElsewhere(r) THEN Search(call, r) ELSE Ended(call, r)
    /\ UNCHANGED binding

(* _request returns a 2xx answer from base b.  In a planner read an empty  *)
(* surface is a failed attempt.                                            *)
ReturnOk(b, surface) ==
    IF ~Posts(call.kind) /\ SurfaceIsEmpty(surface)
    THEN call' = Search(call, "empty") /\ UNCHANGED binding
    ELSE /\ call' = Ended(call, "ok")
         /\ binding' = IF IsPlanner(call.kind) THEN Succeeded(b, surface)
                                               ELSE binding

-----------------------------------------------------------------------------
(* One exchange of the call, which ends with answer a and surface s.  The  *)
(* control plane acted if it says so, and may have if it answers with a    *)
(* 5xx or not at all.  Two stands for "more than once".                    *)
Exchanged(a, s) ==
    /\ a \in Answers /\ s \in Surfaces
    /\ a # "ok" => s = "none"
    /\ \E n \in CASE Posts(call.kind) /\ a = "ok" -> {1}
                   [] Posts(call.kind) /\ a \in {"none", "error", "unavailable"} -> {0, 1}
                   [] OTHER -> {0} :
           applied' = IF applied + n > 2 THEN 2 ELSE applied + n
    /\ UNCHANGED <<bearers, calls>>

MayReissue == Reissued(call.kind) /\ ~call.nested

(* The exchange is repeated with the configured bearer.                    *)
RetryStatic(stage) ==
    /\ call' = [call EXCEPT !.stage = stage, !.static = TRUE]
    /\ UNCHANGED binding

\* Mutant: the refreshed base is not compared with the one that failed.
ClassifiedAgain(r) ==
    IF /\ IsPlanner(call.kind) /\ (~Posts(call.kind) \/ MayReissue)
       /\ classify_error(r) \in {"auth_expired", "binding_rotated"}
    THEN /\ call' = [call EXCEPT !.at[1] = Head(Reordered(TRUE)), !.stage = "send",
                                 !.nested = TRUE]
         /\ UNCHANGED binding
    ELSE ReturnFailure(r)

(* A classified failure r of base b: a planner call whose route or session *)
(* looks stale is sent once more to the base that a refresh puts first.    *)
Classified(r) ==
    LET retry_base == Head(Reordered(TRUE))
        safe_to_retry == ~Posts(call.kind) \/ MayReissue
    IN  IF /\ IsPlanner(call.kind) /\ safe_to_retry
           /\ classify_error(r) \in {"auth_expired", "binding_rotated"}
           /\ retry_base # call.at[1]
        THEN /\ call' = [call EXCEPT !.at[1] = retry_base, !.stage = "send",
                                     !.nested = TRUE]
             /\ UNCHANGED binding
        ELSE ReturnFailure(r)

(* The first exchange of _request.                                         *)
Send(a, s) ==
    /\ call.stage = "send" /\ Exchanged(a, s)
    /\ CASE a = "ok" -> ReturnOk(call.at[1], s)
         [] a = "none" ->
              LET spare == Without(call.at[1])
              IN  IF MayReissue /\ call.at[2] = Paths[1] /\ spare # <<>>
                  THEN /\ call' = [call EXCEPT !.stage = "reissue", !.spare = spare]
                       /\ UNCHANGED binding
                  ELSE ReturnFailure("unreachable")
         [] a = "redirect" /\ bearers -> RetryStatic("after_redirect")
         [] a = "redirect" /\ ~bearers -> ReturnFailure("redirected")
         [] a = "unauthorized" /\ bearers -> RetryStatic("after_refusal")
         [] OTHER -> Classified(a)

(* After a transport error the same request goes to the other bases in     *)
(* turn; whatever one of them answers is the result.                       *)
Reissue(a, s) ==
    /\ call.stage = "reissue" /\ Exchanged(a, s)
    /\ CASE a = "ok" -> ReturnOk(Head(call.spare), s)
         [] a = "none" /\ Len(call.spare) > 1 ->
              /\ call' = [call EXCEPT !.spare = Tail(@)]
              /\ UNCHANGED binding
         [] a = "none" /\ Len(call.spare) = 1 -> ReturnFailure("unreachable")
         [] a = "redirect" -> ReturnFailure("moved")
         [] OTHER -> ReturnFailure(a)

(* The exchange with the configured bearer after a login redirect: its     *)
(* answer is treated as a first one, except that it cannot redirect again. *)
AfterRedirect(a, s) ==
    /\ call.stage = "after_redirect" /\ Exchanged(a, s)
    /\ CASE a = "ok" -> ReturnOk(call.at[1], s)
         [] a \in {"none", "redirect"} -> ReturnFailure("redirected")
         [] a = "unauthorized" -> RetryStatic("after_refusal")
         [] OTHER -> Classified(a)

(* The exchange with the configured bearer after a 401 or 403: its answer  *)
(* is the result, and a 2xx makes the base the bound one whatever surface  *)
(* it offers.  If it is lost, the refusal stands.                          *)
AfterRefusal(a, s) ==
    /\ call.stage = "after_refusal" /\ Exchanged(a, s)
    /\ CASE a = "ok" /\ ~Posts(call.kind) /\ SurfaceIsEmpty(s) ->
              /\ call' = Search(call, "empty")
              /\ binding' = Succeeded(call.at[1], s)
         [] a = "ok" /\ (Posts(call.kind) \/ ~SurfaceIsEmpty(s)) ->
              ReturnOk(call.at[1], s)
         [] a = "none" -> ReturnFailure("unauthorized")
         [] a = "redirect" -> ReturnFailure("redirected")
         [] OTHER -> ReturnFailure(a)

Exchange ==
    \E a \in Answers, s \in Surfaces :
        Send(a, s) \/ Reissue(a, s) \/ AfterRedirect(a, s) \/ AfterRefusal(a, s)

McpNext ==
    \/ \E kind \in Kinds, differs \in BOOLEAN : StartCall(kind, differs)
    \/ Exchange

(* An exchange ends: the HTTP client has a timeout.                        *)
McpFairness == WF_mcpVars(Exchange)

McpSpec == McpInit /\ [][McpNext]_mcpVars /\ McpFairness

-----------------------------------------------------------------------------
McpTypeOK ==
    /\ binding.base \in ToSet(Bases) \union {NoBase}
    /\ binding.surface \in BOOLEAN
    /\ call.kind \in Kinds /\ call.nested \in BOOLEAN
    /\ call.stage \in {"idle", "send", "reissue", "after_redirect",
                       "after_refusal", "done"}
    /\ call.stage = "done" => call.out # ""
    /\ applied \in 0..2 /\ calls \in 0..MaxCalls

(***************************************************************************)
(* A control action or the creation of a change session takes effect at    *)
(* most once, over all bases, paths and bearers it is tried with, and the  *)
(* caller is told the truth: "definitely_applied" if it took effect, and   *)
(* "not_sent", after which he may send it again, only if it did not.  (Not *)
(* so when the exchange was repeated with the configured bearer: if that   *)
(* one is lost, the refusal before it is what the caller is told.)         *)
(***************************************************************************)
ControlActionOnce ==
    call.kind = "control" =>
        /\ applied < 2
        /\ call.delivery = "definitely_applied" => applied = 1
        /\ call.delivery = "not_sent" => applied = 0 \/ call.static

(***************************************************************************)
(* Every call is answered, although a failed exchange may rebind, reissue, *)
(* change the bearer and go on to the next base: none of this goes round   *)
(* in a circle.                                                            *)
(***************************************************************************)
CallsAreAnswered == []<>(call.stage \in {"idle", "done"})
=============================================================================
