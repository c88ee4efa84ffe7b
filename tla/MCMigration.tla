---------------------------- MODULE MCMigration ----------------------------
(* Small instances of Migration. *)
EXTENDS Migration, TLC

Home(rules, memory, root, skill) ==
    [x \in Path |->
        CASE x \in {Config, Client} -> "v1"
          [] x = Rules -> rules
          [] x = Memory -> memory
          [] x = SkillRoot -> root
          [] OTHER -> IF \E s \in Skills : x = LegacySkill(s) THEN skill ELSE "absent"]

\* With everything there is to migrate; with nothing that is Personal Tideway's
\* but the config, and a skills root the client already uses; and with a rules
\* file of white space, which passes the ownership check without a managed block.
MCHomes == {Home("v1", "v1", "absent", "v1"), Home("absent", "absent", "foreign", "foreign"),
            Home("blank", "absent", "absent", "absent")}

FullHome == {Home("v1", "v1", "absent", "v1")}

Symmetry == Permutations(Procs) \cup Permutations(Bundles)

=============================================================================
