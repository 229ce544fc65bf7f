------------------------------ MODULE SiteVersion ------------------------------
(***************************************************************************)
(* What deploying means to those who visit a website, without folders,     *)
(* services or steps: while a deploy is at work the site may waver; when   *)
(* it is over the site has been replaced by the new version, or is what it *)
(* was.  Deploy.tla (apps/agent/src/sites/deploy-handler.ts) is shown to   *)
(* implement it where only what a deploy is there to survive goes wrong.   *)
(***************************************************************************)
EXTENDS Naturals

CONSTANTS Versions, None

VARIABLES serves,   \* the version that answers, or None
          version,  \* the version deployed last, or being deployed
          was,      \* what answered when that began
          outcome   \* what became of it

vars == <<serves, version, was, outcome>>

Init == serves = None /\ version = 0 /\ was = None /\ outcome = "none"

Begin == /\ outcome # "pending"
         /\ \E v \in Versions : v > version /\ version' = v
         /\ was' = serves /\ outcome' = "pending"
         /\ UNCHANGED serves

\* Down, or one of the two; where nothing answered, an older version may be
\* tried again.
Waver == /\ outcome = "pending"
         /\ serves' \in {None, was, version} \cup (IF was = None THEN Versions ELSE {})
         /\ UNCHANGED <<version, was, outcome>>

Replace == /\ outcome = "pending" /\ serves = version
           /\ outcome' = "replaced"
           /\ UNCHANGED <<serves, version, was>>

\* A deploy that fails takes nothing away, and its build is not left serving.
Keep == /\ outcome = "pending"
        /\ serves' \in IF was = None THEN (Versions \ {version}) \cup {None} ELSE {was}
        /\ outcome' = "kept"
        /\ UNCHANGED <<version, was>>

Next == Begin \/ Waver \/ Replace \/ Keep

Spec == Init /\ [][Next]_vars
===============================================================================
