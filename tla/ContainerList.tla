--------------------------- MODULE ContainerList ---------------------------
(***************************************************************************)
(* The containers of a project as Stop and Down handle them                *)
(* (local/compose/containers.go).  Both list them once, into a slice that  *)
(* the visits of the services share and split.  split keeps the order of   *)
(* the listing, so a slice is the set of its containers, and a loop over   *)
(* it takes them in the order of their places in the listing.              *)
(***************************************************************************)
EXTENDS FiniteSets, Sequences, Functions

CONSTANTS
  Listing,         \* the containers of the project, as the engine lists them
  ServiceOf,       \* the service label of each container
  TornReads        \* a read of a slice racing with a write may mix the two

ASSUME ListingAssumption ==
  /\ Listing \in Seq(Range(Listing)) /\ IsInjective(Listing)
  /\ DOMAIN ServiceOf = Range(Listing)
  /\ TornReads \in BOOLEAN

Containers == Range(Listing)
Of(s)      == {c \in Containers : ServiceOf[c] = s}
Place(c)   == CHOOSE i \in DOMAIN Listing : Listing[i] = c

(* A loop over a slice takes c when these of its containers are left.      *)
IsNext(c, left) == c \in left /\ \A d \in left : Place(c) <= Place(d)

(* Containers.split(isService(s)).                                         *)
Split(list, s) == [mine |-> list \cap Of(s), others |-> list \ Of(s)]

(* The values a visit may read in a slice that others are about to         *)
(* overwrite: the current one or, if the build tears the read, the old     *)
(* array with the length of the new one.                                   *)
Torn(old, new) ==
  {c \in old : Cardinality({d \in old : Place(d) < Place(c)}) < Cardinality(new)}

Readings(list, writes) == {list} \cup {Torn(list, w) : w \in IF TornReads THEN writes ELSE {}}
=============================================================================
