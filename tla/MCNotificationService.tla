------------------------- MODULE MCNotificationService -------------------------
(* NotificationService with interchangeable ids and observers. *)
EXTENDS NotificationService

CONSTANTS i1, i2, o1, o2

MCId == {i1, i2}
MCObserver == {o1, o2}
Symmetry == Permutations(MCId) \cup Permutations(MCObserver)

==============================================================================
