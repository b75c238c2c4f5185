------------------------------ MODULE Settings ------------------------------
(***************************************************************************)
(* The settings registry (internal/settings, pkg/settings/tree.go): the    *)
(* directory on disk, what a validation pass makes of it, the reload that  *)
(* adopts it under the registry's lock, and the watcher of a flat          *)
(* directory.  What the consumers do in their AfterAdopt hooks is the      *)
(* composing module's: a reload stands at "hooks" while they run.          *)
(*                                                                         *)
(* A folder (the four files) is Absent, Bad (a validation error) or a      *)
(* document of Docs.  The root is unlisted, holds files of its own         *)
(* ("files", a flat root), and folders by tenant id; "loose" is an entry   *)
(* that is neither, "stray" a folder whose name is no tenant id.           *)
(***************************************************************************)
EXTENDS Pools

CONSTANTS
    Worlds,       \* world -> the instance it stands for, below
    Default       \* tenant.Default, the tenant of a flat root

\* A world gives the tenants in id order (ids), the shape of the directory
\* the server booted with (nested) and its content (boot), the contents it
\* may be given later (disks), how often (edits), and which consumers are
\* at work (live); the composing module reads the rest.

VARIABLES
    world,        \* the instance, never changed
    disk,         \* the settings directory
    store,        \* each tenant's Store: the document last adopted
    tenants,      \* Registry.tenants: "unknown", "served" or "rejected"
    reload,       \* the reload holding Registry.mu
    result,       \* the last reload's result (ReloadStats.LastSuccessful)
    watch,        \* Registry.Watch and its fsnotify watches
    edits         \* how often the directory was changed: bounded by the world

settings == <<world, disk, store, tenants, reload, result, watch, edits>>

Absent == "absent"
Bad == "bad"

W == Worlds[world]
Ids == W.ids
Tenants == ToSet(Ids)

Served(t) == tenants[t] = "served"

-----------------------------------------------------------------------------
(* A validation pass.                                                      *)

folders(d) == {t \in DOMAIN d.folders : d.folders[t] # Absent}

NoTree == [ok |-> FALSE, nested |-> FALSE, docs |-> <<>>, errs |-> TRUE]

Validate(d) ==
    IF ~d.listed THEN NoTree
    ELSE IF d.files # Absent \/ (folders(d) = {} /\ ~d.stray)
    THEN LET doc == IF folders(d) # {} \/ d.stray \/ d.loose \/ d.files = Absent
                    THEN Bad ELSE d.files
         IN [ok |-> TRUE, nested |-> FALSE, docs |-> [t \in {Default} |-> doc], errs |-> doc = Bad]
    ELSE [ok |-> ~d.loose, nested |-> TRUE,
          docs |-> [t \in folders(d) |-> d.folders[t]],
          errs |-> d.loose \/ d.stray \/ \E t \in folders(d) : d.folders[t] = Bad]

emptyRoot(d) ==
    d.listed /\ d.files = Absent /\ folders(d) = {} /\ ~d.stray /\ ~d.loose

\* What a reload of the directory takes of it: nothing when the finding is
\* about the root, the shape is not the booted one, or a flat root is in
\* error.
treeOf(d) ==
    IF W.nested /\ emptyRoot(d)
    THEN [ok |-> TRUE, nested |-> TRUE, docs |-> <<>>, errs |-> FALSE]
    ELSE LET tree == Validate(d)
         IN IF /\ tree.ok
               /\ tree.nested = W.nested
               /\ tree.nested \/ tree.docs[Default] # Bad
            THEN tree ELSE NoTree

-----------------------------------------------------------------------------
(* Reload and ReloadTenant.                                                *)

\* "whole" is a reload of the directory, else of one tenant's folder; docs
\* is what it read; todo the tenants it has yet to adopt; stale and failed
\* are its hooks': the tenants the pools reported stale, and whether a hook
\* reported a failure (Registry.Reconciled).
NoReload == [pc |-> "idle", trigger |-> "boot", whole |-> TRUE, docs |-> <<>>, errs |-> FALSE,
             todo |-> {}, stale |-> {}, failed |-> FALSE]

\* SIGHUP and POST /v1/ops/settings/reload take one path.
Triggers == {"sighup", "watch"}

\* The result recorded when a reload ends; a watch's ends the watcher's call.
Recorded(r, trigger) ==
    /\ result' = r
    /\ watch' = IF trigger = "watch" THEN [watch EXCEPT !.pc = "loop"] ELSE watch

Begin(trigger, tree) ==
    IF ~tree.ok
    THEN Recorded("rejected", trigger) /\ UNCHANGED reload
    ELSE /\ reload' = [NoReload EXCEPT
                !.pc = "adopt", !.trigger = trigger, !.docs = tree.docs, !.errs = tree.errs,
                !.todo = {t \in Tenants : t \in DOMAIN tree.docs}]
         /\ UNCHANGED <<result, watch>>

Reload(trigger) ==
    /\ reload.pc = "idle"
    /\ trigger = "watch" => watch.pc = "reload"
    /\ trigger # "watch" => "reload" \in W.live
    /\ Begin(trigger, treeOf(disk))
    /\ UNCHANGED <<world, disk, store, tenants, edits>>

\* One tenant's folder of a nested directory; a flat directory is its
\* default tenant's folder.
ReloadTenant(t) ==
    /\ reload.pc = "idle"
    /\ "one" \in W.live
    /\ tenants[t] # "unknown"
    /\ IF ~W.nested THEN Begin("sighup", treeOf(disk))
       ELSE LET doc == IF disk.listed /\ disk.folders[t] # Absent THEN disk.folders[t] ELSE Bad
            IN /\ reload' = [NoReload EXCEPT
                      !.pc = "adopt", !.trigger = "sighup", !.whole = FALSE,
                      !.docs = [u \in {t} |-> doc], !.errs = doc = Bad, !.todo = {t}]
               /\ UNCHANGED <<result, watch>>
    /\ UNCHANGED <<world, disk, store, tenants, edits>>

\* t is before u in id order.
Precedes(t, u) == \E i, j \in DOMAIN Ids : i < j /\ Ids[i] = t /\ Ids[j] = u

\* entry.adopt, one tenant after another in id order: a Store handed out
\* earlier reads the new document from here on, before the tenants are swapped.
AdoptDoc ==
    /\ reload.pc = "adopt"
    /\ \E t \in reload.todo :
          /\ \A u \in reload.todo \ {t} : Precedes(t, u)
          /\ store' = IF reload.docs[t] = Bad THEN store
                      ELSE [store EXCEPT ![t] = reload.docs[t]]
          /\ reload' = [reload EXCEPT !.todo = @ \ {t}]
    /\ UNCHANGED <<world, disk, tenants, result, watch, edits>>

\* The tenants are replaced whole: a folder gone from the directory is a
\* tenant forgotten, its Store with it.
Swap ==
    /\ reload.pc = "adopt"
    /\ reload.todo = {}
    /\ tenants' = [t \in Tenants |->
                      IF t \in DOMAIN reload.docs
                      THEN IF reload.docs[t] = Bad THEN "rejected" ELSE "served"
                      ELSE IF reload.whole THEN "unknown" ELSE tenants[t]]
    /\ store' = [t \in Tenants |-> IF tenants'[t] = "unknown" THEN None ELSE store[t]]
    /\ reload' = [reload EXCEPT !.pc = "pools"]
    /\ UNCHANGED <<world, disk, result, watch, edits>>

\* The hooks have run: the result is recorded and the lock released.
Record ==
    /\ reload.pc = "record"
    /\ Recorded(IF ~reload.whole /\ reload.errs THEN "rejected"
                ELSE IF reload.errs \/ reload.failed THEN "partial" ELSE "adopted",
                reload.trigger)
    /\ reload' = NoReload
    /\ UNCHANGED <<world, disk, store, tenants, edits>>

-----------------------------------------------------------------------------
(* The watcher of a flat directory.  pc is "start", "parent", "reload" (on *)
(* its way into Reload), "loop" or "ended"; dir and parent are the live    *)
(* watches, event a relevant event not yet taken, timer the armed          *)
(* debounce.                                                               *)

NoWatch == [pc |-> "ended", dir |-> FALSE, parent |-> FALSE, event |-> FALSE, timer |-> FALSE]

\* Add(dir) fails on a directory that is not there, and Watch returns.
WatchDir ==
    /\ watch.pc = "start"
    /\ watch' = [watch EXCEPT !.pc = IF disk.listed THEN "parent" ELSE "ended",
                              !.dir = disk.listed]
    /\ UNCHANGED <<world, disk, store, tenants, reload, result, edits>>

\* The parent's watch is best effort.
WatchParent ==
    /\ watch.pc = "parent"
    /\ \E ok \in BOOLEAN : watch' = [watch EXCEPT !.pc = "reload", !.parent = ok]
    /\ UNCHANGED <<world, disk, store, tenants, reload, result, edits>>

TakeEvent ==
    /\ watch.pc = "loop"
    /\ watch.event
    /\ watch' = [watch EXCEPT !.event = FALSE, !.timer = TRUE]
    /\ UNCHANGED <<world, disk, store, tenants, reload, result, edits>>

\* The directory's watch is not restored.
TimerFiresBug ==
    /\ watch.pc = "loop"
    /\ watch.timer
    /\ watch' = [watch EXCEPT !.timer = FALSE, !.pc = "reload"]
    /\ UNCHANGED <<world, disk, store, tenants, reload, result, edits>>

\* The burst is over: the directory's watch is restored if it is there, and
\* then it is reloaded.
TimerFires ==
    /\ watch.pc = "loop"
    /\ watch.timer
    /\ watch' = [watch EXCEPT !.timer = FALSE, !.dir = disk.listed, !.pc = "reload"]
    /\ UNCHANGED <<world, disk, store, tenants, reload, result, edits>>

-----------------------------------------------------------------------------
(* The operator changes the directory: in place, which only its own watch  *)
(* sees, or by removing or replacing it, which its parent's sees too and   *)
(* which ends its own.                                                     *)

Edit ==
    /\ edits < W.edits
    /\ \E d \in W.disks \ {disk} :
          /\ disk' = d
          /\ \/ /\ disk.listed /\ d.listed
                /\ watch' = [watch EXCEPT !.event = @ \/ watch.dir]
             \/ /\ ~W.nested
                /\ watch' = [watch EXCEPT !.event = @ \/ watch.dir \/ watch.parent,
                                          !.dir = FALSE]
    /\ edits' = edits + 1
    /\ UNCHANGED <<world, store, tenants, reload, result>>
=============================================================================
