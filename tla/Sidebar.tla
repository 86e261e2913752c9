------------------------------ MODULE Sidebar ------------------------------
(***************************************************************************)
(* The console's frame: the effect of Shell.tsx that, on every dataVersion,  *)
(* reads the list of pools and then each pool's detail for the sidebar, and  *)
(* the dialog that creates a pool (PoolCreateDialog.tsx): it reads the list  *)
(* to number the new pool, creates it, closes, refreshes and opens it.       *)
(***************************************************************************)
EXTENDS Naturals, Sequences, FiniteSets, SequencesExt

CONSTANTS NoList,      \* the sidebar holds no list (or no snapshots)
          MaxChanges,  \* bound: changes of pools made elsewhere
          MaxRefresh,  \* bound: calls of refreshData from elsewhere
          MaxCreates   \* bound: pools created here

ASSUME NoListAssumption == NoList \notin Nat

VARIABLES poolChanges, \* changes of the server's pools so far
          priorities,  \* priority of each pool on the server, oldest first
          dataVersion, \* AdminUI's counter
          fetches,     \* runs of the effect that are still going
          sidePools,   \* the list shown, as the version it was read at
          sideSnaps,   \* the snapshots shown, as the version they were read at
          askedAt,     \* poolChanges when the newest run began
          dialog,      \* create dialog: open, saving
          creates,     \* runs of createPool
          made,        \* creations begun
          moreRefresh, \* refreshes from elsewhere so far
          wentBad      \* two creations overlapped, or a pool was deleted

sideVars == <<poolChanges, priorities, dataVersion, fetches, sidePools, sideSnaps,
              askedAt, dialog, creates, made, moreRefresh, wentBad>>

SidebarInit ==
  /\ poolChanges = 0
  /\ priorities = <<1, 2>>
  /\ dataVersion = 0
  /\ fetches = {[gen |-> 0, st |-> "list", ver |-> 0]}
  /\ sidePools = NoList
  /\ sideSnaps = NoList
  /\ askedAt = 0
  /\ dialog = [open |-> FALSE, saving |-> FALSE]
  /\ creates = {}
  /\ made = 0
  /\ moreRefresh = 0
  /\ wentBad = FALSE

\* refreshData: the effect's cleanup cancels the run before, a new one begins.
Refetch ==
  /\ dataVersion' = dataVersion + 1
  /\ fetches' = fetches \cup {[gen |-> dataVersion + 1, st |-> "list", ver |-> 0]}
  /\ askedAt' = poolChanges

Cancelled(f) == f.gen # dataVersion

\* The list is answered: it is shown, and the details are asked for at once.
ListArrives(f) ==
  /\ f \in fetches
  /\ f.st = "list"
  /\ IF Cancelled(f)
     THEN fetches' = fetches \ {f} /\ UNCHANGED sidePools
     ELSE /\ sidePools' = poolChanges
          /\ fetches' = (fetches \ {f}) \cup {[f EXCEPT !.st = "details", !.ver = poolChanges]}
  /\ UNCHANGED <<poolChanges, priorities, dataVersion, sideSnaps, askedAt, dialog, creates,
                 made, moreRefresh, wentBad>>

\* All the details are answered (one that fails counts as a bare pool).
DetailsRead(f) ==
  /\ f \in fetches
  /\ f.st = "details"
  /\ fetches' = (fetches \ {f}) \cup {[f EXCEPT !.st = "read", !.ver = poolChanges]}
  /\ UNCHANGED <<poolChanges, priorities, dataVersion, sidePools, sideSnaps, askedAt, dialog,
                 creates, made, moreRefresh, wentBad>>

\* Faulty variant: the answer of a cancelled run is taken over.
DetailsArrive_NotCancelled(f) ==
  /\ f \in fetches
  /\ f.st = "read"
  /\ fetches' = fetches \ {f}
  /\ sideSnaps' = f.ver
  /\ UNCHANGED <<poolChanges, priorities, dataVersion, sidePools, askedAt, dialog, creates,
                 made, moreRefresh, wentBad>>

DetailsArrive(f) ==
  /\ f \in fetches
  /\ f.st = "read"
  /\ fetches' = fetches \ {f}
  /\ sideSnaps' = IF Cancelled(f) THEN sideSnaps ELSE f.ver
  /\ UNCHANGED <<poolChanges, priorities, dataVersion, sidePools, askedAt, dialog, creates,
                 made, moreRefresh, wentBad>>

\* Faulty variant: the list is emptied, its snapshots stay.
ListFails_KeepsSnaps(f) ==
  /\ f \in fetches
  /\ f.st = "list"
  /\ fetches' = fetches \ {f}
  /\ sidePools' = IF Cancelled(f) THEN sidePools ELSE NoList
  /\ UNCHANGED <<poolChanges, priorities, dataVersion, sideSnaps, askedAt, dialog, creates,
                 made, moreRefresh, wentBad>>

\* The list's request fails: the sidebar is emptied.
ListFails(f) ==
  /\ f \in fetches
  /\ f.st = "list"
  /\ fetches' = fetches \ {f}
  /\ sidePools' = IF Cancelled(f) THEN sidePools ELSE NoList
  /\ sideSnaps' = IF Cancelled(f) THEN sideSnaps ELSE NoList
  /\ UNCHANGED <<poolChanges, priorities, dataVersion, askedAt, dialog, creates, made,
                 moreRefresh, wentBad>>

\* Another page or another console changes a pool, or deletes one; a page of
\* this console calls refreshData.
ChangeElsewhere ==
  /\ poolChanges < MaxChanges
  /\ poolChanges' = poolChanges + 1
  /\ \/ UNCHANGED <<priorities, wentBad>>
     \/ /\ \E i \in 1 .. Len(priorities) : priorities' = RemoveAt(priorities, i)
        /\ wentBad' = TRUE
  /\ UNCHANGED <<dataVersion, fetches, sidePools, sideSnaps, askedAt, dialog, creates, made,
                 moreRefresh>>

RefreshElsewhere ==
  /\ moreRefresh < MaxRefresh
  /\ moreRefresh' = moreRefresh + 1
  /\ Refetch
  /\ UNCHANGED <<poolChanges, priorities, sidePools, sideSnaps, dialog, creates, made,
                 wentBad>>

-----------------------------------------------------------------------------
(* The dialog *)

\* openCreatePool; the effect on the dialog's opening resets label and saving.
openCreatePool ==
  /\ ~dialog.open
  /\ made < MaxCreates
  /\ dialog' = [open |-> TRUE, saving |-> FALSE]
  /\ UNCHANGED <<poolChanges, priorities, dataVersion, fetches, sidePools, sideSnaps, askedAt,
                 creates, made, moreRefresh, wentBad>>

\* Escape or a click outside closes it, also while it saves.
closeCreatePool ==
  /\ dialog.open
  /\ dialog' = [dialog EXCEPT !.open = FALSE]
  /\ UNCHANGED <<poolChanges, priorities, dataVersion, fetches, sidePools, sideSnaps, askedAt,
                 creates, made, moreRefresh, wentBad>>

createPool ==
  /\ dialog.open
  /\ ~dialog.saving
  /\ made < MaxCreates
  /\ made' = made + 1
  /\ dialog' = [dialog EXCEPT !.saving = TRUE]
  /\ creates' = creates \cup {[n |-> made + 1, st |-> "counting", priority |-> 0]}
  /\ wentBad' = (wentBad \/ creates # {})
  /\ UNCHANGED <<poolChanges, priorities, dataVersion, fetches, sidePools, sideSnaps, askedAt,
                 moreRefresh>>

\* GET /pools: one more than there are.
CountPools(c) ==
  /\ c \in creates
  /\ c.st = "counting"
  /\ creates' = (creates \ {c}) \cup
                {[c EXCEPT !.st = "counted", !.priority = Len(priorities) + 1]}
  /\ UNCHANGED <<poolChanges, priorities, dataVersion, fetches, sidePools, sideSnaps, askedAt,
                 dialog, made, moreRefresh, wentBad>>

\* POST /pools.
InsertPool(c) ==
  /\ c \in creates
  /\ c.st = "counted"
  /\ poolChanges' = poolChanges + 1
  /\ priorities' = Append(priorities, c.priority)
  /\ creates' = (creates \ {c}) \cup {[c EXCEPT !.st = "created"]}
  /\ UNCHANGED <<dataVersion, fetches, sidePools, sideSnaps, askedAt, dialog, made,
                 moreRefresh, wentBad>>

\* The new pool is there: close, refresh, open it, and the flag is reset.
CreateArrives(c) ==
  /\ c \in creates
  /\ c.st = "created"
  /\ creates' = creates \ {c}
  /\ dialog' = [open |-> FALSE, saving |-> FALSE]
  /\ Refetch
  /\ UNCHANGED <<poolChanges, priorities, sidePools, sideSnaps, made, moreRefresh, wentBad>>

\* Either request, or its answer, is lost.
CreateFails(c) ==
  /\ c \in creates
  /\ creates' = creates \ {c}
  /\ dialog' = [dialog EXCEPT !.saving = FALSE]
  /\ wentBad' = (wentBad \/ c.st = "created")
  /\ UNCHANGED <<poolChanges, priorities, dataVersion, fetches, sidePools, sideSnaps, askedAt,
                 made, moreRefresh>>

SidebarNext ==
  \/ \E f \in fetches : ListArrives(f) \/ DetailsRead(f) \/ DetailsArrive(f) \/ ListFails(f)
  \/ ChangeElsewhere \/ RefreshElsewhere
  \/ openCreatePool \/ closeCreatePool \/ createPool
  \/ \E c \in creates : CountPools(c) \/ InsertPool(c) \/ CreateArrives(c) \/ CreateFails(c)

SidebarSpec == SidebarInit /\ [][SidebarNext]_sideVars

-----------------------------------------------------------------------------
(* Properties *)

\* The sidebar's snapshots implement the latest-wins loader: a run of the
\* effect that was cancelled by a newer dataVersion leaves nothing behind, and
\* what is shown never goes back to an earlier state of the pools.
SidebarView == INSTANCE FreshView WITH
  Keys <- {"pools"}, NoView <- NoList, src <- poolChanges, want <- "pools",
  floor <- askedAt, pending <- \E f \in fetches : ~Cancelled(f),
  shown <- IF sideSnaps = NoList THEN NoList ELSE [key |-> "pools", ver |-> sideSnaps]
SidebarIsFreshView == SidebarView!FreshSpec

\* Once a run has ended undisturbed, list and snapshots tell of the pools as
\* they were since that run began: the snapshots are never older than the list.
SnapshotsFollowList ==
  (\A f \in fetches : Cancelled(f)) =>
     \/ sidePools = NoList /\ sideSnaps = NoList
     \/ sidePools # NoList /\ sideSnaps # NoList
        /\ sidePools >= askedAt /\ sideSnaps >= sidePools

\* The created pool comes last in the order of priorities, and no two pools
\* share one, as long as creations do not overlap and no pool was deleted:
\* the number of pools is read, and used, without either.
NewPoolIsLast == ~wentBad => \A i, j \in 1 .. Len(priorities) : i < j => priorities[i] < priorities[j]

\* The sidebar's list, its snapshots and the priorities that the dialog takes from
\* another copy of the list fit together.
SidebarIsSound ==
  /\ SnapshotsFollowList
  /\ NewPoolIsLast

=============================================================================
