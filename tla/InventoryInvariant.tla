------------------------- MODULE InventoryInvariant -------------------------
(***************************************************************************)
(* The inductive invariant of Inventory: what every reachable state has to *)
(* satisfy for the tables to keep their types and for a resolved           *)
(* reservation to stay resolved, for any sessions, rows and entry points.  *)
(***************************************************************************)
EXTENDS Inventory

(* The store: what open transactions have written, against what is         *)
(* committed and against what requests have in memory.                     *)

(* A row is written by one open transaction at a time.                     *)
Exclusive == \A s, o \in Sessions, r \in Rows :
    writes[s][r] # Absent /\ writes[o][r] # Absent => s = o

(* What a transaction has written is newer than what is committed.         *)
Newer == \A s \in Sessions, r \in Rows :
    writes[s][r] # Absent /\ db[r] # Absent => writes[s][r].version > db[r].version

(* What a request has loaded still exists, is no newer than what it would  *)
(* see now, and is just that when the versions agree.                      *)
Snapshot == \A s \in Sessions, r \in Rows :
    loaded[s][r] # Absent =>
        /\ Visible(s, r) # Absent
        /\ loaded[s][r].version <= Visible(s, r).version
        /\ loaded[s][r].version = Visible(s, r).version => loaded[s][r] = Visible(s, r)

(* An open transaction rewrites a reservation only while it is ACTIVE in   *)
(* the committed table.                                                    *)
WritesActive == \A s \in Sessions, r \in Resvs :
    writes[s][r] # Absent /\ db[r] # Absent => IsActive(db[r])

(* Optimistic concurrency is sound: a version tells one content of a row,  *)
(* and only grows, so a Save from a stale copy cannot pass its guard, and  *)
(* row locks keep two transactions from both passing it.                   *)
StoreInv == Exclusive /\ Newer /\ Snapshot /\ WritesActive

(* Outside a transaction nothing is left uncommitted.                      *)
TxClosed(s) == ~InTx(s) => writes[s] = NoRows

-----------------------------------------------------------------------------
(* A session: what its next statement relies on.                           *)

Has(s, r) == loaded[s][r] # Absent
Holds(s)  == \A u \in job[s].todo : Has(s, u)

Resolves == {"load", "save", "bin", "savebin"}

(* What the lookups have put in memory.                                    *)
LookedUp(s) ==
    /\ \A r \in job[s].queue : Has(s, r)
    /\ job[s].op \in DOMAIN Resolution => job[s].res \in Resvs /\ Has(s, job[s].res)
    /\ job[s].op = "reserve" => job[s].sku \in Skus /\ job[s].demand \in Demands

(* The reservation being resolved was ACTIVE when it was loaded.           *)
ResolvesActive(s) ==
    /\ job[s].res \in Resvs /\ Has(s, job[s].res)
    /\ IsActive(loaded[s][job[s].res])
    /\ job[s].op = "reserve" => job[s].act = "EXPIRED"
    /\ job[s].rank = ById

NextInHand(s) == \A u \in job[s].todo : IsNext(s, u) => Has(s, u)

UnitAllows(s) == \A u \in job[s].todo : IsNext(s, u) =>
    IF Picking(s) THEN CanPick(loaded[s][u], Share(s, u))
                  ELSE CanRelease(loaded[s][u], Share(s, u))

BinAllows(s) == \A u \in job[s].todo : IsNext(s, u) =>
    /\ Has(s, loaded[s][u].bin)
    /\ CanReleaseBin(loaded[s][loaded[s][u].bin], Share(s, u))

Control(s) ==
    /\ pc[s] = "idle" => job[s].op = "none"
    /\ pc[s] \in Resolves \cup {"due"} => LookedUp(s)
    /\ pc[s] = "commit" /\ job[s].act = "EXPIRED" => LookedUp(s)
    /\ pc[s] \in Resolves => ResolvesActive(s)
    /\ pc[s] \in {"save", "bin", "savebin"} => NextInHand(s)
    /\ pc[s] = "save" => UnitAllows(s)
    /\ pc[s] = "savebin" => BinAllows(s)
    /\ pc[s] = "commit" /\ job[s].op = "reserve" => job[s].act = "EXPIRED"
    /\ pc[s] = "draw" => /\ job[s].op = "reserve" /\ job[s].sku \in Skus
                         /\ job[s].demand \in Demands /\ Holds(s)
    /\ pc[s] = "reply" => job[s].op = "reserve"
    /\ pc[s] \in {"place", "putbin", "putunit"} =>
          /\ job[s].op = "stow" /\ job[s].sku \in Skus
          /\ job[s].bin \in Bins /\ Has(s, job[s].bin)
    /\ pc[s] \in {"place", "putbin", "putunit", "setbin", "mark"} => job[s].act = "ACTIVE"
    /\ pc[s] = "setbin" => job[s].op = "register" /\ job[s].bin \in Bins
    /\ pc[s] = "mark" => job[s].op = "count" /\ job[s].bin \in Bins /\ Holds(s)

IInv == TypeOK /\ StoreInv /\ \A s \in Sessions : TxClosed(s) /\ Control(s)
=============================================================================
