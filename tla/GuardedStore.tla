---------------------------- MODULE GuardedStore ----------------------------
(***************************************************************************)
(* What the vault's file API promises to a caller who names the version he *)
(* has read: a store of versions by path, in which a call first claims a   *)
(* path whose content is the version it named (0: that nothing is there)   *)
(* and only then changes it.  Others may write at any time; a claim is     *)
(* clean while they have not touched its paths.                            *)
(***************************************************************************)
EXTENDS Naturals

CONSTANTS Paths, Versions   \* 0 \in Versions is the version of a path that is free

VARIABLES
  store,   \* the version at each path
  claim    \* the call's claim, or NoClaim

storeVars == <<store, claim>>

NoClaim == [kind |-> "none"]

Claims ==
  {c \in [kind : {"put", "delete", "move", "linked"}, path : Paths, dest : Paths,
          expected : Versions, clean : BOOLEAN] :
     /\ c.kind \in {"move", "linked"} <=> c.path # c.dest
     /\ c.kind # "put" => c.expected # 0}

StoreInit == store \in [Paths -> Versions] /\ claim = NoClaim

\* A claim is granted, or granted anew, when the path holds what the caller named.
Grant ==
  /\ claim' \in Claims
  /\ claim'.kind # "linked" /\ claim'.clean /\ store[claim'.path] = claim'.expected
  /\ claim \in {NoClaim} \union {[claim' EXCEPT !.clean = b] : b \in BOOLEAN}
  /\ UNCHANGED store

Withdraw == claim.kind # "linked" /\ claim' = NoClaim /\ UNCHANGED store

\* A put never lands on a path that was to be free and is not.
Put(v) ==
  /\ claim.kind = "put" /\ v # 0
  /\ claim.expected = 0 => store[claim.path] = 0
  /\ store' = [store EXCEPT ![claim.path] = v]
  /\ claim' = NoClaim

Delete ==
  /\ claim.kind = "delete"
  /\ store' = [store EXCEPT ![claim.path] = 0]
  /\ claim' = NoClaim

\* A move first gives the version a second path, one that is free ...
Link ==
  /\ claim.kind = "move" /\ store[claim.dest] = 0 /\ store[claim.path] # 0
  /\ store' = [store EXCEPT ![claim.dest] = store[claim.path]]
  /\ claim' = [claim EXCEPT !.kind = "linked"]

\* ... and looks at both again; then it drops the old path, the new one, or stops
\* half way.
Recheck ==
  /\ claim.kind = "linked"
  /\ claim' = [claim EXCEPT !.clean = @ \/ (store[claim.path] = claim.expected
                                            /\ store[claim.dest] = claim.expected)]
  /\ UNCHANGED store

Settle ==
  /\ claim.kind = "linked"
  /\ store' \in {store, [store EXCEPT ![claim.path] = 0], [store EXCEPT ![claim.dest] = 0]}
  /\ claim' = NoClaim

\* Somebody else writes: one path, or the two paths of one file.
Touch ==
  /\ store' \in [Paths -> Versions]
  /\ claim' = IF claim = NoClaim \/ \A p \in {claim.path, claim.dest} : store'[p] = store[p]
              THEN claim ELSE [claim EXCEPT !.clean = FALSE]

StoreNext ==
  \/ \E v \in Versions : Put(v)
  \/ Grant \/ Withdraw \/ Delete \/ Link \/ Recheck \/ Settle \/ Touch

StoreSpec == StoreInit /\ [][StoreNext]_storeVars

\* The promise: while a claim is clean its path holds the version the caller named,
\* so what a clean put, delete or move takes away is what he asked to replace.
CleanClaimHolds == claim # NoClaim /\ claim.clean => store[claim.path] = claim.expected
=============================================================================
