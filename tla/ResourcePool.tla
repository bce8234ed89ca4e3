---------------------------- MODULE ResourcePool ----------------------------
(***************************************************************************)
(* What a pool promises its users, whatever its threads do: a resource is  *)
(* idle or with exactly one borrower, only idle resources are destroyed,   *)
(* and the number of resources stays between a floor and a cap.            *)
(***************************************************************************)
EXTENDS Integers, FiniteSets

CONSTANTS
  Borrowers, Resources,
  Floor,              \* never destroy below this many resources
  Cap,                \* never create at or above this many resources
  None                \* what a borrower without a resource holds

VARIABLES
  idle,               \* resources nobody uses
  held                \* the resource of each borrower

pool == <<idle, held>>

Lent == {held[b] : b \in Borrowers} \ {None}
Borrowing == {b \in Borrowers : held[b] # None}
Total == Cardinality(idle) + Cardinality(Borrowing)

PoolInit ==
  /\ idle \subseteq Resources /\ Cardinality(idle) \in {0, Floor}
  /\ held = [b \in Borrowers |-> None]

Acquire(b) ==
  /\ held[b] = None
  /\ \E r \in idle : /\ idle' = idle \ {r}
                     /\ held' = [held EXCEPT ![b] = r]

GiveBack(b) ==
  /\ held[b] # None
  /\ idle' = idle \cup {held[b]}
  /\ held' = [held EXCEPT ![b] = None]

Create ==
  /\ Total < Cap
  /\ \E r \in Resources \ (idle \cup Lent) : idle' = idle \cup {r}
  /\ UNCHANGED held

Destroy ==
  /\ \E dead \in SUBSET idle : /\ Total - Cardinality(dead) >= Floor
                               /\ idle' = idle \ dead
  /\ UNCHANGED held

PoolNext ==
  \/ \E b \in Borrowers : Acquire(b) \/ GiveBack(b)
  \/ Create \/ Destroy

PoolSpec == PoolInit /\ [][PoolNext]_pool
=============================================================================
