-------------------------------- MODULE Gate --------------------------------
(***************************************************************************)
(* The files the gatekeeper keeps for every claimable unit and every       *)
(* lease, and the primitives of gatekeeper.py that change them:            *)
(*                                                                         *)
(*   gate/<unit>.lock/            lockdir   the unit's lock directory      *)
(*   gate/<unit>.lock/lease.json  copy      the lease the lock names       *)
(*                                stamp     max(since, renewed_at) in it   *)
(*   gate/<unit>.clean            clean     "reset since its last release" *)
(*   leases/<lease>.json          records   the lease record               *)
(*                                                                         *)
(* Every primitive here is one system call that another process can see    *)
(* the two sides of.  A primitive determines all five variables.           *)
(***************************************************************************)
EXTENDS Naturals

CONSTANTS
    Units,      \* the claimable units: boards, or chips on a chip-grained box
    Leases,     \* the lease ids that may be drawn
    NoLease,    \* "lease.json is missing"
    MaxNow      \* bound of the coarse clock, in grace windows

ASSUME GateAssumption ==
    /\ NoLease \notin Leases
    /\ MaxNow \in Nat

VARIABLES lockdir, copy, stamp, records, clean

gateVars == <<lockdir, copy, stamp, records, clean>>

GateTypeOK ==
    /\ lockdir \subseteq Units
    /\ copy \in [Units -> Leases \cup {NoLease}]
    /\ stamp \in [Units -> 0..MaxNow]
    /\ records \subseteq Leases
    /\ clean \subseteq Units

GateInit ==
    /\ lockdir = {}
    /\ copy = [u \in Units |-> NoLease]
    /\ stamp = [u \in Units |-> 0]
    /\ records = {}
    /\ clean = {}

-----------------------------------------------------------------------------
\* claim_unit, first half: the atomic mkdir. It fails when the directory exists.
MakeLock(u) ==
    /\ u \notin lockdir
    /\ lockdir' = lockdir \cup {u}
    /\ UNCHANGED <<copy, stamp, records, clean>>

\* The atomic replace of lease.json, into a directory that must exist: the
\* second half of claim_unit and all of update_unit_lease.
PutCopy(u, l, t) ==
    /\ u \in lockdir
    /\ copy' = [copy EXCEPT ![u] = l]
    /\ stamp' = [stamp EXCEPT ![u] = t]
    /\ UNCHANGED <<lockdir, records, clean>>

\* release_unit, the guard: the lock still names the lease the caller expects.
StillNames(u, l) == copy[u] = l

\* release_unit: unlink of lease.json, a missing file is suppressed.
UnlinkCopy(u) ==
    /\ copy' = [copy EXCEPT ![u] = NoLease]
    /\ stamp' = [stamp EXCEPT ![u] = 0]
    /\ UNCHANGED <<lockdir, records, clean>>

\* release_unit: rmdir of the lock, ENOTEMPTY and ENOENT are suppressed.
RemoveLock(u) ==
    /\ lockdir' = IF copy[u] = NoLease THEN lockdir \ {u} ELSE lockdir
    /\ UNCHANGED <<copy, stamp, records, clean>>

\* write_lease and delete_lease.
WriteRecord(l) ==
    /\ records' = records \cup {l}
    /\ UNCHANGED <<lockdir, copy, stamp, clean>>

DeleteRecord(l) ==
    /\ records' = records \ {l}
    /\ UNCHANGED <<lockdir, copy, stamp, clean>>

\* mark_clean and clear_clean over the units of one request.
MarkClean(S) ==
    /\ clean' = clean \cup S
    /\ UNCHANGED <<lockdir, copy, stamp, records>>

ClearClean(S) ==
    /\ clean' = clean \ S
    /\ UNCHANGED <<lockdir, copy, stamp, records>>

\* held_units: the units whose lock can be read.
HeldUnits == {u \in Units : copy[u] # NoLease}

\* Keymaster._units_held_elsewhere, and the units with no readable lock.
HeldElsewhere(S, l) == {u \in S : copy[u] \notin {NoLease, l}}
Unheld(S) == {u \in S : copy[u] = NoLease}
=============================================================================
