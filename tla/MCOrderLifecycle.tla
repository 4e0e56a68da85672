-------------------------- MODULE MCOrderLifecycle --------------------------
(* Small instances of OrderLifecycle for TLC. *)
EXTENDS OrderLifecycle, TLC

MCAllMethods == {"cod", "deposit", "card"}
MCAllStatuses == Statuses
MCAllOutcomes == {"success", "decline", "void", "refund"}
MCAllCourierEvents == {"picked_up", "delivered", "returned", "cancelled", "failed"}
MCAllBookings == {"created", "failed"}

MCSymmetry == Permutations(Sessions) \cup Permutations(Charges)

=============================================================================
