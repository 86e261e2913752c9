----------------------------- MODULE FreshView -----------------------------
(***************************************************************************)
(* What a page of the web console promises about the data it shows, however *)
(* its requests are answered: the data it takes over is what the server held *)
(* at some moment since the newest request for it was made, for the key that *)
(* request named.  An answer to an older request, or for another key, is     *)
(* never taken over, so what is shown never goes back to an earlier state.   *)
(***************************************************************************)
EXTENDS Naturals

CONSTANTS Keys,      \* what can be asked for
          NoView     \* nothing has been taken over yet

VARIABLES src,       \* how many changes the server has seen
          want,      \* the key of the newest request
          floor,     \* src when the newest request was made
          pending,   \* the newest request is still unanswered
          shown      \* the data taken over last, with its key and age

viewVars == <<src, want, floor, pending, shown>>

FreshInit ==
  /\ src \in Nat
  /\ want \in Keys
  /\ floor = src
  /\ pending \in BOOLEAN
  /\ shown = NoView

\* The server's data changes: nothing the page holds does.
Change ==
  /\ src' = src + 1
  /\ UNCHANGED <<want, floor, pending, shown>>

\* A request is made: it supersedes the one before it.
Ask(k) ==
  /\ want' = k
  /\ floor' = src
  /\ pending' = TRUE
  /\ UNCHANGED <<src, shown>>

\* The newest request is answered with data no older than the request.
Show ==
  /\ pending
  /\ \E v \in floor .. src : shown' = [key |-> want, ver |-> v]
  /\ pending' = FALSE
  /\ UNCHANGED <<src, want, floor>>

\* The newest request fails: what is shown stays.
GiveUp ==
  /\ pending
  /\ pending' = FALSE
  /\ UNCHANGED <<src, want, floor, shown>>

\* The page is closed and its data with it.
Forget ==
  /\ pending' = FALSE
  /\ shown' = NoView
  /\ UNCHANGED <<src, want, floor>>

FreshNext ==
  \/ Change
  \/ \E k \in Keys : Ask(k)
  \/ Show
  \/ GiveUp
  \/ Forget

FreshSpec == FreshInit /\ [][FreshNext]_viewVars

=============================================================================
