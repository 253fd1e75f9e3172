--------------------------- MODULE TradingPermit ---------------------------
(***************************************************************************)
(* What the live session promises about new risk, without saying how.      *)
(* A session holds a permit.  It starts unverified, is granted after the   *)
(* remote account has been read, is revoked by anything that makes the     *)
(* account doubtful, and is granted again only by way of a verification.   *)
(* While an exposure is being reduced the permit is suspended, and comes   *)
(* back when everything is flat.  Resting entry orders may disappear at    *)
(* any time, and appear only under a granted permit.                       *)
(***************************************************************************)
CONSTANT EntryIds      \* identities of entry orders

VARIABLES permit,      \* the session's permit
          entries,     \* identities of the entry orders that rest at the exchange
          flat         \* the session believes every position is zero

vars == <<permit, entries, flat>>

Permit == {"unverified", "granted", "revoked", "verifying", "reducing", "withdrawn"}

Init == permit = "unverified" /\ entries = {} /\ flat = TRUE

NoNewEntry == entries' \subseteq entries

Grant  == permit \in {"unverified", "verifying"} /\ permit' = "granted" /\ NoNewEntry
Enter  == permit = "granted" /\ permit' = "granted"
Reduce == permit = "granted" /\ ~flat /\ permit' = "reducing" /\ NoNewEntry
Flattened == permit = "reducing" /\ flat' /\ permit' = "granted" /\ NoNewEntry

\* A revocation may start the verification at once.
Revoke ==
    /\ permit \in {"unverified", "granted", "reducing"}
    /\ permit' \in {"revoked", "verifying"}
    /\ NoNewEntry
Verify == permit = "revoked" /\ permit' = "verifying" /\ NoNewEntry

Withdraw   == permit # "withdrawn" /\ permit' = "withdrawn" /\ NoNewEntry
NewSession == permit = "withdrawn" /\ permit' = "unverified" /\ NoNewEntry

\* Fills, cancels and position changes between the decisions.
Market == permit' = permit /\ NoNewEntry

Next == \/ Grant \/ Enter \/ Reduce \/ Flattened
        \/ Revoke \/ Verify \/ Withdraw \/ NewSession \/ Market

Spec == Init /\ [][Next]_vars
=============================================================================
