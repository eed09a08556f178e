----------------------------- MODULE RouteIndex -----------------------------
(***************************************************************************)
(* The route index of one process (model/balancer.go) and the rows it is a *)
(* copy of: administrators and credential refreshes commit a change and    *)
(* call Load (model/channel.go, channel_keys.go, model_explorer.go), a     *)
(* disabled endpoint is only marked in memory, and a node that is not the  *)
(* master also loads the index periodically (main.go, SyncChannelCache).   *)
(* The cooldowns beside the index are left out.                            *)
(***************************************************************************)
EXTENDS Naturals, FiniteSets

CONSTANTS
  Endpoints,
  Changes,          (* the changes that are made, each one call *)
  Roles,            (* of {"master", "replica"} *)
  LoadsMayFail      (* a query of Load may fail, once *)

Ticker == "ticker"
Loaders == Changes \cup {Ticker}

ASSUME RouteAssumption ==
  /\ Ticker \notin Changes /\ LoadsMayFail \in BOOLEAN
  /\ Roles \subseteq {"master", "replica"}

VARIABLES
  role,
  status, key,      (* the rows: gateway_endpoints.status, its credential *)
  index,            (* the copy: the endpoint is there, its credential *)
  change,           (* per change: where its call is *)
  subject,          (* per change: its endpoint *)
  load,             (* per loader: where its Load is, and what it has read *)
  loadFailed        (* history *)

routeVars == <<role, status, key, index, change, subject, load, loadFailed>>

(* Of an endpoint: enabled, and which version of its credential. *)
View == [there : BOOLEAN, key : Nat]
Resting == [at |-> "idle", there |-> {}, view |-> <<>>]

RouteInit ==
  /\ role \in Roles
  /\ status = [e \in Endpoints |-> TRUE] /\ key = [e \in Endpoints |-> 0]
  /\ index = [e \in Endpoints |-> [there |-> TRUE, key |-> 0]]
  /\ change = [c \in Changes |-> "new"]
  /\ subject \in [Changes -> Endpoints]
  /\ load = [l \in Loaders |-> Resting] /\ loadFailed = FALSE

ChangeGoes(c, label) == change' = [change EXCEPT ![c] = label]

-----------------------------------------------------------------------------
(* Changes. *)

(* UpdateChannelStatusById: the row first, then the copy. *)
Disable(c) ==
  /\ change[c] = "new"
  /\ status' = [status EXCEPT ![subject[c]] = FALSE]
  /\ ChangeGoes(c, "mark")
  /\ UNCHANGED <<role, key, index, subject, load, loadFailed>>

(* ChangeStatus, under the lock of the index. *)
MarkDisabled(c) ==
  /\ change[c] = "mark"
  /\ index' = [index EXCEPT ![subject[c]].there = FALSE]
  /\ ChangeGoes(c, "done")
  /\ UNCHANGED <<role, status, key, subject, load, loadFailed>>

StartLoad(l) == load' = [load EXCEPT ![l].at = "endpoints"]

Enable(c) ==
  /\ change[c] = "new"
  /\ status' = [status EXCEPT ![subject[c]] = TRUE]
  /\ ChangeGoes(c, "load") /\ StartLoad(c)
  /\ UNCHANGED <<role, key, index, subject, loadFailed>>

(* SaveRefreshedCredential, DisableGatewayCredential, saveGatewayKeyPool and
   the other edits of an endpoint. *)
ChangeKey(c) ==
  /\ change[c] = "new"
  /\ key' = [key EXCEPT ![subject[c]] = @ + 1]
  /\ ChangeGoes(c, "load") /\ StartLoad(c)
  /\ UNCHANGED <<role, status, index, subject, loadFailed>>

(* Load has returned. *)
ChangeEnds(c) ==
  /\ change[c] = "load" /\ load[c].at = "idle"
  /\ ChangeGoes(c, "done")
  /\ UNCHANGED <<role, status, key, index, subject, load, loadFailed>>

-----------------------------------------------------------------------------
(* Load: query after query, without a lock or a transaction, and then the
   index is replaced under its lock. *)

ReadEndpoints(l) ==
  /\ load[l].at = "endpoints"
  /\ load' = [load EXCEPT ![l] = [at |-> "credentials",
                                  there |-> {e \in Endpoints : status[e]}, view |-> <<>>]]
  /\ UNCHANGED <<role, status, key, index, change, subject, loadFailed>>

ReadCredentials(l) ==
  /\ load[l].at = "credentials"
  /\ load' = [load EXCEPT ![l].at = "install", ![l].view =
       [e \in Endpoints |-> [there |-> e \in load[l].there, key |-> key[e]]]]
  /\ UNCHANGED <<role, status, key, index, change, subject, loadFailed>>

(* Mutant: what was loaded is merged, so a removed endpoint stays. *)
InstallMerged(l) ==
  /\ load[l].at = "install"
  /\ index' = [e \in Endpoints |-> IF load[l].view[e].there THEN load[l].view[e] ELSE index[e]]
  /\ load' = [load EXCEPT ![l] = Resting]
  /\ UNCHANGED <<role, status, key, change, subject, loadFailed>>

Install(l) ==
  /\ load[l].at = "install"
  /\ index' = load[l].view
  /\ load' = [load EXCEPT ![l] = Resting]
  /\ UNCHANGED <<role, status, key, change, subject, loadFailed>>

(* A failing query is logged; the index stays as it is. *)
LoadFails(l) ==
  /\ LoadsMayFail /\ ~loadFailed
  /\ load[l].at \in {"endpoints", "credentials"}
  /\ loadFailed' = TRUE
  /\ load' = [load EXCEPT ![l] = Resting]
  /\ UNCHANGED <<role, status, key, index, change, subject>>

(* SyncChannelCache. *)
TickLoads ==
  /\ role = "replica"
  /\ load[Ticker].at = "idle"
  /\ StartLoad(Ticker)
  /\ UNCHANGED <<role, status, key, index, change, subject, loadFailed>>

-----------------------------------------------------------------------------
LoadStep(l) == ReadEndpoints(l) \/ ReadCredentials(l) \/ Install(l) \/ LoadFails(l)
ChangeStep(c) == MarkDisabled(c) \/ ChangeEnds(c)

RouteNext ==
  \/ \E c \in Changes : Disable(c) \/ Enable(c) \/ ChangeKey(c) \/ ChangeStep(c)
  \/ \E l \in Loaders : LoadStep(l)
  \/ TickLoads

RouteSpec == RouteInit /\ [][RouteNext]_routeVars

(* Calls return, and the replica's loop goes on. *)
RouteFairness ==
  /\ \A c \in Changes : WF_routeVars(ChangeStep(c))
  /\ \A l \in Loaders : WF_routeVars(LoadStep(l))
  /\ WF_routeVars(TickLoads)

-----------------------------------------------------------------------------
(* Properties. *)

RouteTypeOK ==
  /\ role \in Roles
  /\ status \in [Endpoints -> BOOLEAN] /\ key \in [Endpoints -> Nat]
  /\ index \in [Endpoints -> View]
  /\ change \in [Changes -> {"new", "mark", "load", "done"}]
  /\ \A l \in Loaders : load[l].at \in {"idle", "endpoints", "credentials", "install"}

(* The copy says of every endpoint what the rows say. *)
IsCurrent ==
  \A e \in Endpoints :
    /\ index[e].there = status[e]
    /\ status[e] => index[e].key = key[e]
AllIsDone == \A c \in Changes : change[c] = "done"

(* On a node that is not the master, the index is what the database says once
   the changes are over, whichever Loads overtook each other. *)
IndexCatchesUp == role = "replica" /\ AllIsDone ~> IsCurrent
=============================================================================
