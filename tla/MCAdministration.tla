-------------------------- MODULE MCAdministration --------------------------
(***************************************************************************)
(* Small instances of Administration: a few forms for each page.           *)
(***************************************************************************)
EXTENDS Administration, TLC

CONSTANTS r1, r2

Closed == [AllowRegistration |-> FALSE, RequireConfirmation |-> TRUE]
Free == [AllowRegistration |-> TRUE, RequireConfirmation |-> FALSE]
MCFlags == {Closed, Free}
MCFactory == [flags |-> Closed, snmp |-> "c0"]

MCRegistrations == {[name |-> "bob", password |-> "p1"]}
MCRenewals == {[name |-> "bob", old |-> "p1", new |-> "p2"],
               [name |-> "admin", old |-> "admin", new |-> "p2"]}
MCConfirmations == {{"admin", "bob"}}

MCSymmetry == Permutations({r1, r2})

=============================================================================
