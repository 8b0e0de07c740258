------------------------------- MODULE Pages -------------------------------
(***************************************************************************)
(* Paginated queries: a client walks through a list page by page, by the   *)
(* next_key of each answer, while blocks are committed in between.         *)
(*                                                                         *)
(* The list is what a query iterates over (the accounts, an account's      *)
(* balances, the validators of a status...): the entries of a prefix of a  *)
(* store, by increasing key.  An entry appears in it or leaves it with a   *)
(* commit.  Every query reads the latest committed version.                *)
(***************************************************************************)
EXTENDS Integers, Sequences, SequencesExt, FiniteSets, FiniteSetsExt

CONSTANTS
    EntryKey,          \* keys of the entries, numbers in their order
    Limits,       \* limits a client asks for
    LimitMax,     \* u8::MAX: a larger limit is cut
    NoKey,        \* the empty next_key
    MaxCommits    \* bound: commits that change the list

ASSUME PagesAssumption ==
    /\ EntryKey \subseteq Nat /\ IsFiniteSet(EntryKey) /\ NoKey \notin EntryKey
    /\ Limits \subseteq Nat /\ LimitMax \in Nat /\ MaxCommits \in Nat

VARIABLES
    entries,  \* the keys of the list
    commits,  \* how often it changed
    phase,    \* of the client: "idle", "walking" or "done"
    limit,    \* of its requests
    cursor,   \* next_key of the last answer, NoKey before the first
    seen,     \* the keys of all answers, in their order
    kept,     \* ghost: the keys listed ever since the walk began
    lost      \* ghost: a cursor was not listed any more

walkVars == <<entries, commits, phase, limit, cursor, seen, kept, lost>>

List ==
    CHOOSE s \in [1 .. Cardinality(entries) -> entries] :
        \A i, j \in 1 .. Cardinality(entries) : i < j => s[i] < s[j]

-----------------------------------------------------------------------------
(* Requests: PageRequest, PaginationRequest and Pagination.  An empty key  *)
(* asks by offset; the first page is the one at offset zero.               *)

CutLimit(n) == IF n > LimitMax THEN LimitMax ELSE n

\* paginate_by_offset, which multiplies by the limit what the conversion of
\* the request has multiplied already.
SkipOffset(list, offset, n) == SubSeq(list, offset * n * n + 1, Len(list))

\* Mutated form of SkipToKey: the walk goes on after the cursor.
SkipPastKey(list, k) == SelectSeq(list, LAMBDA x : x > k)

\* paginate_by_key: nothing is left when the key is not there.
SkipToKey(list, k) ==
    IF k \in ToSet(list) THEN SubSeq(list, CHOOSE i \in DOMAIN list : list[i] = k, Len(list))
    ELSE <<>>

Unread == IF cursor = NoKey THEN SkipOffset(List, 0, limit) ELSE SkipToKey(List, cursor)

\* take(limit).
Items(rest) == SubSeq(rest, 1, IF limit < Len(rest) THEN limit ELSE Len(rest))

\* Mutated form of NextKey: the last of the page, not the first of the next.
NextKeyLast(rest) == IF Len(rest) > limit THEN rest[IF limit = 0 THEN 1 ELSE limit] ELSE NoKey

\* Mutated form of NextKey: a page that found nothing repeats its cursor.
NextKeyRetry(rest) ==
    IF rest = <<>> THEN cursor ELSE IF Len(rest) > limit THEN rest[limit + 1] ELSE NoKey

\* peek_nth(limit).
NextKey(rest) == IF Len(rest) > limit THEN rest[limit + 1] ELSE NoKey

-----------------------------------------------------------------------------

WalkInit ==
    /\ entries \in SUBSET EntryKey
    /\ commits = 0
    /\ phase = "idle" /\ limit = 0 /\ cursor = NoKey
    /\ seen = <<>> /\ kept = {} /\ lost = FALSE

StartWalk(n) ==
    /\ phase = "idle"
    /\ phase' = "walking"
    /\ limit' = CutLimit(n)
    /\ kept' = entries
    /\ UNCHANGED <<entries, commits, cursor, seen, lost>>

\* One query, and what the client does with its answer.
FetchPage ==
    /\ phase = "walking"
    /\ seen' = seen \o Items(Unread)
    /\ cursor' = NextKey(Unread)
    /\ phase' = IF NextKey(Unread) = NoKey THEN "done" ELSE "walking"
    /\ lost' = (lost \/ (cursor # NoKey /\ cursor \notin entries))
    /\ UNCHANGED <<entries, commits, limit, kept>>

\* A block inserts an entry, or deletes one.
CommitEntry(k) ==
    /\ commits < MaxCommits /\ phase # "done"
    /\ entries' = IF k \in entries THEN entries \ {k} ELSE entries \cup {k}
    /\ kept' = kept \ {k}
    /\ commits' = commits + 1
    /\ UNCHANGED <<phase, limit, cursor, seen, lost>>

Done == phase = "done" /\ UNCHANGED walkVars

WalkNext ==
    \/ \E n \in Limits : StartWalk(n)
    \/ FetchPage
    \/ \E k \in EntryKey : CommitEntry(k)
    \/ Done

\* The client keeps asking until it has the last page.
WalkSpec == WalkInit /\ [][WalkNext]_walkVars /\ WF_walkVars(FetchPage)

-----------------------------------------------------------------------------
(* Properties.                                                             *)

\* However blocks and pages interleave, no entry is given twice, and all of
\* them come in the order of their keys, across pages of different versions.
SeenInOrder == \A i \in 1 .. Len(seen) - 1 : seen[i] < seen[i + 1]

\* An entry that was listed during the whole walk is on one of its pages,
\* whatever else came and went, unless the entry a cursor named was deleted
\* (the page is then empty and looks like the last one).
WalkComplete == (phase = "done" /\ ~lost) => kept \subseteq ToSet(seen)

\* A walk with a limit comes to its last page.  (With a limit of zero every
\* answer names the cursor it was asked with.)
WalkEnds == (phase = "walking" /\ limit > 0) ~> (phase = "done")
=============================================================================
