----------------------------- MODULE MCCounter -----------------------------
(***************************************************************************)
(* Small instances, for TLC, of what customers submit, the shifts it falls *)
(* into, the QR tokens that let customers in, the accounts they pay to,    *)
(* and the connections to the database that carry it all.  They share      *)
(* nothing here, so one run checks them side by side: a behaviour is a     *)
(* behaviour of one of them, and the others stay where they start.         *)
(***************************************************************************)
EXTENDS PublicSubmit, Shifts, QrTokens, ShopAccounts, DbPool, TLC

VARIABLE part   \* the module that runs

cast == <<part, vars, shiftVars, qrVars, shopVars, poolVars>>

SubmitOnly == part = "submit" /\ UNCHANGED <<part, shiftVars, qrVars, shopVars, poolVars>>
ShiftsOnly == part = "shifts" /\ UNCHANGED <<part, vars, qrVars, shopVars, poolVars>>
QrOnly     == part = "qr" /\ UNCHANGED <<part, vars, shiftVars, shopVars, poolVars>>
ShopOnly   == part = "shop" /\ UNCHANGED <<part, vars, shiftVars, qrVars, poolVars>>
PoolOnly   == part = "pool" /\ UNCHANGED <<part, vars, shiftVars, qrVars, shopVars>>

CastInit ==
    /\ part \in {"submit", "shifts", "qr", "shop", "pool"}
    /\ Init /\ ShiftsInit /\ QrInit /\ ShopInit /\ PoolInit

CastNext ==
    \/ SubmitOnly /\ Next
    \/ ShiftsOnly /\ ShiftsNext
    \/ QrOnly /\ QrNext
    \/ ShopOnly /\ ShopNext
    \/ PoolOnly /\ PoolNext

CastSpec == CastInit /\ [][CastNext]_cast

\* Actors of different modules have the same names, and so do their other
\* interchangeable things, so that few permutations serve for all of them.
Interchangeable ==
    Permutations(Sessions)        \* and Callers, Askers, Clerks, Calls
    \cup Permutations(Processes)  \* and the tables, PromptPays
    \cup Permutations(Payloads)   \* and Numbers, two of the Codes
=============================================================================
