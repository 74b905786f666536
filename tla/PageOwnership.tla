--------------------------- MODULE PageOwnership ---------------------------
(***************************************************************************)
(* What the physical page allocator promises to its callers, with no       *)
(* bitmap, cursor, counter or lock: a request is answered in one step,     *)
(* either with an aligned run of free pages that the caller then owns, or  *)
(* with a refusal, and a well-formed request is refused only when no such  *)
(* run exists.  Pmm.tla is shown to implement this.                        *)
(***************************************************************************)
EXTENDS Naturals

CONSTANTS Callers,      \* the CPUs that call the allocator
          Requests,     \* records with fields count, alignment and limit
          Eligible,     \* the pages the allocator manages
          Nothing       \* no request pending

VARIABLES free,         \* the pages that belong to nobody
          owned,        \* owned[c]: the pages caller c holds
          request       \* request[c]: the request being served, or Nothing

vars == <<free, owned, request>>

Run(start, count) == start .. (start + count - 1)

power2(n) == n > 0 /\ \A d \in 2 .. n : n % d = 0 => d % 2 = 0

WellFormed(r) == r.count > 0 /\ power2(r.alignment)

\* An aligned run of r.count pages below r.limit starts at start.
Fits(r, pages, start) ==
    /\ start % r.alignment = 0
    /\ start + r.count <= r.limit
    /\ Run(start, r.count) \subseteq pages

Init ==
    /\ free = Eligible
    /\ owned = [c \in Callers |-> {}]
    /\ request = [c \in Callers |-> Nothing]

Ask(c, r) ==
    /\ request[c] = Nothing
    /\ request' = [request EXCEPT ![c] = r]
    /\ UNCHANGED <<free, owned>>

Grant(c, start) ==
    /\ request[c] # Nothing
    /\ WellFormed(request[c])
    /\ Fits(request[c], free, start)
    /\ free' = free \ Run(start, request[c].count)
    /\ owned' = [owned EXCEPT ![c] = @ \union Run(start, request[c].count)]
    /\ request' = [request EXCEPT ![c] = Nothing]

Refuse(c) ==
    /\ request[c] # Nothing
    /\ WellFormed(request[c]) =>
           \A start \in free : ~Fits(request[c], free, start)
    /\ request' = [request EXCEPT ![c] = Nothing]
    /\ UNCHANGED <<free, owned>>

Release(c, pages) ==
    /\ request[c] = Nothing
    /\ pages \subseteq owned[c]
    /\ free' = free \union pages
    /\ owned' = [owned EXCEPT ![c] = @ \ pages]
    /\ UNCHANGED request

Next ==
    \E c \in Callers :
        \/ \E r \in Requests : Ask(c, r)
        \/ \E start \in free : Grant(c, start)
        \/ Refuse(c)
        \/ \E pages \in SUBSET owned[c] : Release(c, pages)

Spec == Init /\ [][Next]_vars
=============================================================================
