-------------------------- MODULE TemplateCatalog --------------------------
(***************************************************************************)
(* What seeding promises to those who read templates: each seeder takes    *)
(* effect on the whole catalog in one step or not at all, and reports      *)
(* success only after that step.  A seeder that reports failure may still  *)
(* have taken effect, or do so later: its COMMIT can outlive it.           *)
(***************************************************************************)
CONSTANTS
    Seeder, Slug, Body,
    Rows,       \* Rows[s]: the slugs of seeder s' embedded catalog, in file order
    Content,    \* Content[s][t]: the body s' catalog has for slug t
    None

VARIABLES
    templates,  \* templates[t]: the committed row of slug t, or None
    applied,    \* the seeders that have taken effect
    outcome     \* outcome[s]: "open", "ok", "failed" or "unseeded"

vars == <<templates, applied, outcome>>

Slugs(s) == {Rows[s][k] : k \in DOMAIN Rows[s]}

(* The three modes.  fail has an effect only where no slug is present.     *)
Seeded(s, mode) ==
    [t \in Slug |-> IF t \in Slugs(s) /\ (mode = "update" \/ templates[t] = None)
                    THEN Content[s][t] ELSE templates[t]]

Apply(s) ==
    /\ s \notin applied /\ outcome[s] \in {"open", "failed"}
    /\ \E mode \in {"skip", "update", "fail"} :
         /\ mode = "fail" => \A t \in Slugs(s) : templates[t] = None
         /\ templates' = Seeded(s, mode)
    /\ applied' = applied \cup {s}
    /\ UNCHANGED outcome

Report(s) ==
    /\ outcome[s] = "open"
    /\ \/ outcome' = [outcome EXCEPT ![s] = "failed"]
       \/ outcome' = [outcome EXCEPT ![s] = "unseeded"] /\ s \notin applied
       \/ outcome' = [outcome EXCEPT ![s] = "ok"] /\ s \in applied
    /\ UNCHANGED <<templates, applied>>

Init ==
    /\ templates = [t \in Slug |-> None]
    /\ applied = {}
    /\ outcome = [s \in Seeder |-> "open"]

Next == \E s \in Seeder : Apply(s) \/ Report(s)

Spec == Init /\ [][Next]_vars
=============================================================================
