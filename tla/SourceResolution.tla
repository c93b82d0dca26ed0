-------------------------- MODULE SourceResolution --------------------------
(***************************************************************************)
(* Where the source of an artifact is read from                            *)
(* (core/artifact_source_resolution.py).  The provenance of the artifact   *)
(* names a repository and perhaps paths in it; its metadata and its name   *)
(* hint at further directories.  Both give candidate roots, provenance     *)
(* first; the roots are scanned in turn until a limit is reached, and the  *)
(* answer says which of the two the files came from, or that the files are *)
(* the packaged ones.                                                      *)
(*                                                                         *)
(* A directory is a pair of a repository root and a path in it, "." being   *)
(* the root itself.  What a directory holds is read while it is scanned:   *)
(* its files come in any order, and the number of files stands for         *)
(* whichever of the two limits (files, bytes) is reached first.            *)
(***************************************************************************)
EXTENDS Naturals, Sequences, SequencesExt, FiniteSets

CONSTANTS
    RepoRoots,      \* places where the repository is looked for, a sequence
    Subpaths,       \* paths that a provenance or a hint may name
    Files,          \* relative paths of files
    MaxFiles        \* the limit of a scan

ASSUME SourceAssumption ==
    RepoRoots \in Seq(STRING) /\ MaxFiles \in Nat \ {0} /\ "." \notin Subpaths

VARIABLES
    source,         \* the provenance, the hints, the packaged files
    dirs,           \* the directories that exist
    scan,           \* the scan: roots left, files of this root, result so far
    resolved        \* the answer, or NoAnswer

sourceVars == <<source, dirs, scan, resolved>>

Directories == ToSet(RepoRoots) \X (Subpaths \union {"."})

(* monorepo_subpath and the directory of manifest_ref, if they are given   *)
(* and safe; they may be the same.                                         *)
PathCandidates ==
    {<<".">>} \union {<<s>> : s \in Subpaths} \union {<<s, t>> : s, t \in Subpaths}

(* A candidate has its place in the order in which candidates are scanned. *)
_candidate_provenance_roots ==
    {c \in {[at |-> <<1, r, p>>, dir |-> <<RepoRoots[r], source.paths[p]>>] :
                r \in DOMAIN RepoRoots, p \in DOMAIN source.paths} :
        source.repo # "none" /\ <<c.dir[1], ".">> \in dirs /\ c.dir \in dirs}

(* Hints are directories that exist, each once.                            *)
_candidate_source_roots ==
    {[at |-> <<2, h, 1>>, dir |-> source.hints[h]] :
        h \in {h \in DOMAIN source.hints : source.hints[h] \in dirs}}

Provenance == {c.dir : c \in _candidate_provenance_roots}

\* Mutant: the hints are scanned first.
HintsFirst ==
    LET hinted == {c.dir : c \in _candidate_source_roots}
    IN  {[c EXCEPT !.at[1] = 0] : c \in _candidate_source_roots}
        \union {c \in _candidate_provenance_roots : c.dir \notin hinted}

Candidates ==
    _candidate_provenance_roots
    \union {c \in _candidate_source_roots : c.dir \notin Provenance}

Precedes(c, d) ==
    \/ c.at[1] < d.at[1]
    \/ c.at[1] = d.at[1] /\ c.at[2] < d.at[2]
    \/ c.at[1] = d.at[1] /\ c.at[2] = d.at[2] /\ c.at[3] < d.at[3]

NoAnswer ==
    [mode |-> "none", branch |-> "none", origin |-> "none", files |-> "none"]

SourceInit ==
    /\ dirs \in {D \in SUBSET Directories : \A d \in D : <<d[1], ".">> \in D}
    /\ source \in [repo : {"none", "repo_key", "repo_url"}, paths : PathCandidates,
                   hints : {<<>>} \union {<<d>> : d \in dirs}, packaged : BOOLEAN]
    /\ scan = [left |-> Candidates, seen |-> {}, files |-> << >>, selected |-> <<>>,
               count |-> 0, truncated |-> FALSE]
    /\ resolved = NoAnswer

Scanning(root) ==
    /\ resolved = NoAnswer /\ ~scan.truncated
    /\ root \in scan.left /\ \A c \in scan.left \ {root} : Precedes(root, c)
    /\ UNCHANGED <<source, dirs, resolved>>

RootName(d) == IF d[2] = "." THEN d[1] ELSE d[2]

(* One more file of the root.  It takes the place of a file with the same  *)
(* key, and counts anew.                                                   *)
Key(root, f) ==
    IF Len(scan.selected) <= 1 THEN <<f>> ELSE <<RootName(root.dir), f>>

\* Mutant: nothing stops a scan.
ReadFileUnlimited(root, f) ==
    /\ Scanning(root) /\ f \notin scan.seen
    /\ scan' = [scan EXCEPT
           !.seen = @ \union {f}, !.count = @ + 1,
           !.files = [k \in DOMAIN @ \union {Key(root, f)} |->
                         IF k = Key(root, f) THEN root.dir ELSE scan.files[k]]]

ReadFile(root, f) ==
    /\ Scanning(root) /\ f \notin scan.seen /\ scan.count < MaxFiles
    /\ scan' = [scan EXCEPT
           !.seen = @ \union {f}, !.count = @ + 1,
           !.files = [k \in DOMAIN @ \union {Key(root, f)} |->
                         IF k = Key(root, f) THEN root.dir ELSE scan.files[k]]]

(* The limit is noticed at the next entry of a root, whether it is a file  *)
(* that would be read or not, and the root is then not selected.           *)
Truncate(root) ==
    /\ Scanning(root) /\ scan.count >= MaxFiles
    /\ scan' = [scan EXCEPT !.truncated = TRUE]

RootEnds(root) ==
    /\ Scanning(root)
    /\ scan' = [scan EXCEPT
           !.left = @ \ {root}, !.seen = {},
           !.selected = IF scan.seen = {} THEN @ ELSE Append(@, root.dir)]

_read_source_roots ==
    \E root \in scan.left :
        (\E f \in Files : ReadFile(root, f)) \/ Truncate(root) \/ RootEnds(root)

(* The answer.  If the scan was cut short before it selected a root, the   *)
(* branch is the one of the first candidates.                              *)
Branch ==
    LET selected == ToSet(scan.selected)
    IN  IF Provenance # {} /\ (selected = {} \/ selected \cap Provenance # {})
        THEN "provenance_backed" ELSE "filesystem_hint"

Origin ==
    IF Branch = "filesystem_hint" THEN "filesystem_hint"
    ELSE IF scan.selected # <<>> /\ source.repo = "repo_url" THEN "github" ELSE "mirror"

resolve_artifact_source ==
    /\ resolved = NoAnswer /\ (scan.truncated \/ scan.left = {})
    /\ resolved' = IF DOMAIN scan.files # {}
                   THEN [mode |-> "resolved_source", branch |-> Branch,
                         origin |-> Origin, files |-> "scanned"]
                   ELSE [mode |-> "packaged_fallback", branch |-> "packaged_fallback",
                         origin |-> "packaged_fallback",
                         files |-> IF source.packaged THEN "packaged" ELSE "none"]
    /\ UNCHANGED <<source, dirs, scan>>

SourceNext == _read_source_roots \/ resolve_artifact_source

SourceSpec == SourceInit /\ [][SourceNext]_sourceVars

-----------------------------------------------------------------------------
SourceTypeOK ==
    /\ dirs \subseteq Directories /\ scan.left \subseteq Candidates
    /\ scan.seen \subseteq Files /\ scan.count \in 0..MaxFiles
    /\ \A k \in DOMAIN scan.files : scan.files[k] \in dirs
    /\ ToSet(scan.selected) \subseteq dirs
    /\ resolved # NoAnswer =>
           /\ resolved.mode \in {"resolved_source", "packaged_fallback"}
           /\ resolved.origin \in {"github", "mirror", "filesystem_hint", "packaged_fallback"}

(***************************************************************************)
(* The answer never denies where its files came from: with a file of the   *)
(* provenance in it, in a whole scan or in one that was cut short, it says *)
(* "provenance_backed", and a scan that was not cut short says so only if  *)
(* a root of the provenance gave a file.  It is the packaged fallback only *)
(* if no candidate gave any.                                               *)
(***************************************************************************)
FilesFrom(S) == \E k \in DOMAIN scan.files : scan.files[k] \in S

ProvenanceIsNotDenied ==
    resolved # NoAnswer =>
        /\ FilesFrom(Provenance) => resolved.branch = "provenance_backed"
        /\ resolved.branch = "provenance_backed" =>
               scan.truncated \/ ToSet(scan.selected) \cap Provenance # {}
        /\ resolved.mode = "packaged_fallback" <=> ~FilesFrom(dirs)
=============================================================================
