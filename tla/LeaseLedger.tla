---------------------------- MODULE LeaseLedger ----------------------------
(***************************************************************************)
(* What the gatekeeper promises, with no files, processes or mutex: a      *)
(* lease is granted at most once, all of its units at one instant, and only*)
(* over units that no other lease is the tenant of; a tenancy ends unit by *)
(* unit (released, or reaped) and is never taken back.                     *)
(***************************************************************************)
CONSTANTS Units, Leases

VARIABLES tenure,   \* the pairs <<u, l>> where lease l is the tenant of unit u
          granted   \* the leases that have been granted

ledgerVars == <<tenure, granted>>

LedgerTypeOK ==
    /\ tenure \subseteq Units \X Leases
    /\ granted \subseteq Leases

LedgerInit ==
    /\ tenure = {}
    /\ granted = {}

Grant(l, S) ==
    /\ l \notin granted
    /\ S # {}
    /\ \A u \in S, m \in Leases : <<u, m>> \notin tenure
    /\ tenure' = tenure \cup (S \X {l})
    /\ granted' = granted \cup {l}

End(u, l) ==
    /\ <<u, l>> \in tenure
    /\ tenure' = tenure \ {<<u, l>>}
    /\ UNCHANGED granted

LedgerNext ==
    \/ \E l \in Leases, S \in SUBSET Units : Grant(l, S)
    \/ \E u \in Units, l \in Leases : End(u, l)

LedgerSpec == LedgerInit /\ [][LedgerNext]_ledgerVars

\* One tenant per unit: "concurrent acquire from N processes grants disjoint
\* chip sets, never overlapping".
OneTenant == \A s, t \in tenure : s[1] = t[1] => s[2] = t[2]
=============================================================================
