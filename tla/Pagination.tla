----------------------------- MODULE Pagination -----------------------------
(* A client lists the tasks of a queue, or the queues of a location, page by   *)
(* page, while others create and remove them. A page is cut out of the sorted  *)
(* names under the lock; the token that leads to the next one is an index.     *)
EXTENDS Integers, FiniteSets

CONSTANTS Names,        \* the names a list may hold; their order is that of integers
          Max,          \* maxListTasksPageSize or maxListQueuesPageSize
          PageSizes,    \* page_size as clients send it
          NoToken,      \* the empty page_token
          Malformed,    \* a page_token that does not decode to an integer
          Tokens,       \* the tokens a client may start with
          MaxChanges    \* bound: names created, and names removed, during a listing

ASSUME PaginationAssumption ==
    /\ Names \subseteq Int /\ IsFiniteSet(Names)
    /\ Max \in Nat \ {0} /\ PageSizes \subseteq Int
    /\ NoToken \notin Int /\ Malformed \notin Int /\ NoToken # Malformed
    /\ Tokens \subseteq Int \union {NoToken, Malformed}
    /\ MaxChanges \in Nat

VARIABLES
    present,    \* the names in the list
    queue,      \* whether the queue whose tasks are listed exists
    phase,      \* the client: idle, paging, done or failed
    token,      \* the token of its next request
    odd,        \* whether it has sent an odd number: two equal requests are two steps
    from,       \* history: the token it began with
    seen,       \* history: how often it was given each name
    since,      \* history: the names in the list ever since it began
    inserted,   \* history: how many names were created since
    removed     \* history: how many were removed since

vars == <<present, queue, phase, token, odd, from, seen, since, inserted, removed>>

-----------------------------------------------------------------------------
(* paginate, on the position of a name in the sorted list.                     *)

Rank(n) == Cardinality({m \in present : m < n})

Length == Cardinality(present)

Rejected(t) == IF t \in Int THEN t < 0 ELSE t = Malformed

Index(t) == IF t = NoToken THEN 0 ELSE t

Start(t) == IF Index(t) > Length THEN Length ELSE Index(t)

\* Bug: a page_size of zero is taken as it is.
SizeAsGiven(size) == IF size < 0 \/ size > Max THEN Max ELSE size

Size(size) == IF size <= 0 \/ size > Max THEN Max ELSE size

End(t, size) == Start(t) + Size(size)

\* Bug: one name is lost between two pages.
NextTokenPastEnd(t, size) ==
    IF End(t, size) >= Length THEN NoToken ELSE End(t, size) + 1

NextToken(t, size) == IF End(t, size) >= Length THEN NoToken ELSE End(t, size)

Page(t, size) == {n \in present : Start(t) <= Rank(n) /\ Rank(n) < End(t, size)}

-----------------------------------------------------------------------------
Init ==
    /\ present \in SUBSET Names /\ queue = TRUE
    /\ phase = "idle" /\ token = NoToken /\ odd = FALSE /\ from = NoToken
    /\ seen = [n \in Names |-> 0] /\ since = {} /\ inserted = 0 /\ removed = 0

Begin(t) ==
    /\ phase = "idle" /\ phase' = "paging"
    /\ token' = t /\ from' = t /\ since' = present
    /\ UNCHANGED <<present, queue, odd, seen, inserted, removed>>

\* ListTasks or ListQueues, and the client's next move: it goes on while it is
\* given a token. It may ask for another size on every page.
ListPage(size) ==
    /\ phase = "paging" /\ queue /\ ~Rejected(token)
    /\ seen' = [n \in Names |-> IF n \in Page(token, size) THEN seen[n] + 1 ELSE seen[n]]
    /\ token' = NextToken(token, size)
    /\ phase' = IF token' = NoToken THEN "done" ELSE "paging"
    /\ odd' = ~odd
    /\ UNCHANGED <<present, queue, from, since, inserted, removed>>

\* InvalidArgument for a bad token, NotFound for a queue that is gone.
ListFails ==
    /\ phase = "paging" /\ (~queue \/ Rejected(token)) /\ phase' = "failed"
    /\ UNCHANGED <<present, queue, token, odd, from, seen, since, inserted, removed>>

Create(n) ==
    /\ phase = "paging" /\ queue /\ n \notin present /\ inserted < MaxChanges
    /\ present' = present \union {n} /\ inserted' = inserted + 1
    /\ UNCHANGED <<queue, phase, token, odd, from, seen, since, removed>>

Remove(n) ==
    /\ phase = "paging" /\ n \in present /\ removed < MaxChanges
    /\ present' = present \ {n} /\ since' = since \ {n} /\ removed' = removed + 1
    /\ UNCHANGED <<queue, phase, token, odd, from, seen, inserted>>

DeleteQueue ==
    /\ phase = "paging" /\ queue /\ queue' = FALSE
    /\ UNCHANGED <<present, phase, token, odd, from, seen, since, inserted, removed>>

Ended == phase \in {"done", "failed"} /\ UNCHANGED vars

Next ==
    \/ \E t \in Tokens : Begin(t)
    \/ \E size \in PageSizes : ListPage(size)
    \/ ListFails \/ DeleteQueue \/ Ended
    \/ \E n \in Names : Create(n) \/ Remove(n)

Spec == Init /\ [][Next]_vars

\* A client that has a token asks for the next page.
FairSpec == Spec /\ WF_vars((\E size \in PageSizes : ListPage(size)) \/ ListFails)

-----------------------------------------------------------------------------
(* Properties.                                                                *)

TypeOK ==
    /\ present \subseteq Names /\ since \subseteq present
    /\ queue \in BOOLEAN /\ odd \in BOOLEAN
    /\ phase \in {"idle", "paging", "done", "failed"}
    /\ token \in Int \union {NoToken, Malformed}
    /\ from \in Int \union {NoToken, Malformed}
    /\ seen \in [Names -> Nat]
    /\ inserted \in Nat /\ removed \in Nat

Skipped == {n \in since : seen[n] = 0}

\* A listing from the beginning, during which names may be created anywhere but none
\* is removed, reports every name that was there when it began.
AllListed == phase = "done" /\ from = NoToken /\ removed = 0 => Skipped = {}

\* A listing during which names may be removed but none is created reports no name
\* twice, whatever token it began with.
ListedOnce == inserted = 0 => \A n \in Names : seen[n] <= 1

\* In general each removal makes the client miss at most one of the names that were
\* there all the time, and each creation makes at most one name appear again,
\* however the changes fall between its pages.
DriftBounded ==
    /\ phase = "done" /\ from = NoToken => Cardinality(Skipped) <= removed
    /\ Cardinality({n \in Names : seen[n] > 1}) <= inserted

\* A listing ends: every page brings the token forward, whatever page_size is asked for.
ListingEnds == phase = "paging" ~> phase \in {"done", "failed"}
=============================================================================
