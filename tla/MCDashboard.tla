---------------------------- MODULE MCDashboard -----------------------------
(* Two operators who share a session, one of them through a malformed      *)
(* header, and two start requests at a time. The forms: with and without   *)
(* orders in each environment, and two that must be refused.               *)
EXTENDS Dashboard

MCHeaders == {"default", "no such!"}
MCValid == {"default"}

Form(environment, production, submission, confirmed) ==
    [environment |-> environment, production |-> production,
     submission |-> submission, confirmed |-> confirmed]

MCForms == {Form("testnet", FALSE, TRUE, FALSE),
            Form("production", TRUE, FALSE, FALSE),
            Form("production", TRUE, TRUE, TRUE),
            Form("production", TRUE, TRUE, FALSE),
            Form("production", FALSE, FALSE, FALSE)}
=============================================================================
