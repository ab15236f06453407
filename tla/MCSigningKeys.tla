--------------------------- MODULE MCSigningKeys ---------------------------
(* SigningKeys for TLC: isolates and jobs are interchangeable model values. *)
EXTENDS SigningKeys, TLC

CONSTANT MigrationClock   \* bound on the time a migration is followed

Symmetric == Permutations(Jobs) \cup Permutations(Isolates)

(* The lifetimes of the run are the ones the theorem on tokens is about.    *)
ASSUME TimelyAssumption == Timely

(* Two stories in one run: the migration of an old keyring, soon after the  *)
(* deployment and with a fault, and the long life of a new one without.     *)
Migrating == kv # {} \/ LegacyKid \in DOMAIN ring.keys
EitherStory == IF Migrating THEN clock <= MigrationClock ELSE faults = 0
=============================================================================
