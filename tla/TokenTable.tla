------------------------------ MODULE TokenTable ------------------------------
(***************************************************************************)
(* The credentials table of the Settings page (SettingsPage.tsx): reveal and *)
(* copy, rename, replacement and regeneration of an access token.  A token's *)
(* value is its version at the server; the row shows a mask of it, and the   *)
(* full value only from the cache of revealed values.                        *)
(***************************************************************************)
EXTENDS Naturals, FiniteSets

CONSTANTS Tokens,
          MaxCalls,    \* bound: requests
          MaxTurns     \* bound: new values and names at the server

None == 0

VARIABLES secret,      \* per token: value and name at the server
          row,         \* per token: masked value and name on the page
          revealed,    \* revealedTokens: cached value of a token, or None
          visible,     \* visibleTokenIds
          dialog,      \* the open dialog: kind and token
          locked,      \* savingTokenName or savingTokenValue
          calls,       \* requests in flight
          crossed,     \* tokens whose requests overlapped, or lost an answer (ghost)
          copied,      \* the last value handed to the clipboard, the valid one then, and
                       \* whether no other request for the token was under way
          turn         \* requests so far, newest value, newest name

tokenVars == <<secret, row, revealed, visible, dialog, locked, calls, crossed, copied, turn>>

Shut == [kind |-> "none"]

TableInit ==
  /\ secret = [t \in Tokens |-> [value |-> 1, name |-> 1]]
  /\ row = secret
  /\ revealed = [t \in Tokens |-> None]
  /\ visible = {}
  /\ dialog = Shut
  /\ locked = FALSE
  /\ calls = {}
  /\ crossed = {}
  /\ copied = {}
  /\ turn = [calls |-> 0, value |-> 1, name |-> 1]

CallsOf(t) == {c \in calls : c.t = t}

\* A request: what it carries, and the row it would restore.
Call(op, t, v) ==
  /\ turn.calls < MaxCalls
  /\ calls' = calls \cup {[op |-> op, t |-> t, v |-> v, n |-> turn.calls, st |-> "sent", was |-> row[t]]}
  /\ crossed' = IF CallsOf(t) = {} THEN crossed ELSE crossed \cup {t}

Count == turn' = [turn EXCEPT !.calls = @ + 1]

-----------------------------------------------------------------------------
(* Reveal and copy: a cached value needs no request *)

toggleReveal(t) ==
  /\ dialog = Shut
  /\ IF t \in visible THEN visible' = visible \ {t} /\ UNCHANGED <<calls, crossed, turn>>
     ELSE IF revealed[t] # None THEN visible' = visible \cup {t} /\ UNCHANGED <<calls, crossed, turn>>
     ELSE Call("reveal", t, None) /\ Count /\ UNCHANGED visible
  /\ UNCHANGED <<secret, row, revealed, dialog, locked, copied>>

copyToken(t) ==
  /\ dialog = Shut
  /\ IF revealed[t] # None
     THEN /\ copied' = {[t |-> t, value |-> revealed[t], now |-> secret[t].value,
                                   idle |-> CallsOf(t) = {}]}
          /\ UNCHANGED <<calls, crossed, turn>>
     ELSE Call("copy", t, None) /\ Count /\ UNCHANGED copied
  /\ UNCHANGED <<secret, row, revealed, visible, dialog, locked>>

RevealAnswered(c) ==
  /\ c \in calls
  /\ c.st = "ok" /\ c.op \in {"reveal", "copy"}
  /\ calls' = calls \ {c}
  /\ revealed' = [revealed EXCEPT ![c.t] = c.v]
  /\ visible' = IF c.op = "reveal" THEN visible \cup {c.t} ELSE visible
  /\ copied' = IF c.op = "copy" THEN {[t |-> c.t, value |-> c.v, now |-> secret[c.t].value,
                                                     idle |-> CallsOf(c.t) = {c}]} ELSE copied
  /\ UNCHANGED <<secret, row, dialog, locked, crossed, turn>>

-----------------------------------------------------------------------------
(* The dialogs *)

OpenDialog(kind, t) ==
  /\ dialog = Shut
  /\ dialog' = [kind |-> kind, t |-> t]
  /\ UNCHANGED <<secret, row, revealed, visible, locked, calls, crossed, copied, turn>>

\* The two editing dialogs stay open while they save.
CloseDialog ==
  /\ dialog # Shut /\ ~locked
  /\ dialog' = Shut
  /\ UNCHANGED <<secret, row, revealed, visible, locked, calls, crossed, copied, turn>>

\* submitRename: the row takes the new name at once.
submitRename ==
  /\ dialog.kind = "rename" /\ ~locked
  /\ turn.name < MaxTurns
  /\ Call("rename", dialog.t, turn.name + 1)
  /\ turn' = [turn EXCEPT !.calls = @ + 1, !.name = @ + 1]
  /\ row' = [row EXCEPT ![dialog.t].name = turn.name + 1]
  /\ locked' = TRUE
  /\ UNCHANGED <<secret, revealed, visible, dialog, copied>>

\* submitTokenReplace: the row takes the new mask at once.
submitTokenReplace ==
  /\ dialog.kind = "replace" /\ ~locked
  /\ turn.value < MaxTurns
  /\ Call("replace", dialog.t, turn.value + 1)
  /\ turn' = [turn EXCEPT !.calls = @ + 1, !.value = @ + 1]
  /\ row' = [row EXCEPT ![dialog.t].value = turn.value + 1]
  /\ locked' = TRUE
  /\ UNCHANGED <<secret, revealed, visible, dialog, copied>>

\* confirmRegenerateToken: its dialog may close (and a second one be confirmed)
\* while the request is under way.
confirmRegenerateToken ==
  /\ dialog.kind = "regenerate"
  /\ turn.value < MaxTurns
  /\ Call("regenerate", dialog.t, turn.value + 1)
  /\ turn' = [turn EXCEPT !.calls = @ + 1, !.value = @ + 1]
  /\ UNCHANGED <<secret, row, revealed, visible, dialog, locked, copied>>

-----------------------------------------------------------------------------
(* Server and answers *)

\* What a request does to a token at the server; a replacement sends the name too.
Applied(c) ==
  CASE c.op = "rename"     -> [secret[c.t] EXCEPT !.name = c.v]
    [] c.op = "replace"    -> [value |-> c.v, name |-> c.was.name]
    [] c.op = "regenerate" -> [secret[c.t] EXCEPT !.value = c.v]
    [] OTHER               -> secret[c.t]

CallServed(c) ==
  /\ c \in calls
  /\ c.st = "sent"
  /\ \E ok \in BOOLEAN, written \in BOOLEAN :
       /\ ok => written
       /\ secret' = IF written THEN [secret EXCEPT ![c.t] = Applied(c)] ELSE secret
       /\ calls' = (calls \ {c}) \cup
            {[c EXCEPT !.st = IF ok THEN "ok" ELSE "failed",
                       !.v = IF c.op \in {"reveal", "copy"} THEN secret[c.t].value ELSE @]}
       /\ crossed' = IF secret' # secret /\ ~ok THEN crossed \cup {c.t} ELSE crossed
  /\ UNCHANGED <<row, revealed, visible, dialog, locked, copied, turn>>

RenameAnswered(c) ==
  /\ c \in calls
  /\ c.st = "ok" /\ c.op = "rename"
  /\ calls' = calls \ {c}
  /\ dialog' = Shut /\ locked' = FALSE
  /\ UNCHANGED <<secret, row, revealed, visible, crossed, copied, turn>>

\* Faulty variant: the cached value stays.
ReplaceAnswered_KeepsCache(c) ==
  /\ c \in calls
  /\ c.st = "ok" /\ c.op = "replace"
  /\ calls' = calls \ {c}
  /\ row' = [row EXCEPT ![c.t] = [value |-> c.v, name |-> c.was.name]]
  /\ dialog' = Shut /\ locked' = FALSE
  /\ UNCHANGED <<secret, revealed, visible, crossed, copied, turn>>

\* The cached value of a replaced token is forgotten.
ReplaceAnswered(c) ==
  /\ c \in calls
  /\ c.st = "ok" /\ c.op = "replace"
  /\ calls' = calls \ {c}
  /\ row' = [row EXCEPT ![c.t] = [value |-> c.v, name |-> c.was.name]]
  /\ revealed' = [revealed EXCEPT ![c.t] = None]
  /\ dialog' = Shut /\ locked' = FALSE
  /\ UNCHANGED <<secret, visible, crossed, copied, turn>>

\* The new value is cached and shown; whatever dialog asked is closed.
RegenerateAnswered(c) ==
  /\ c \in calls
  /\ c.st = "ok" /\ c.op = "regenerate"
  /\ calls' = calls \ {c}
  /\ row' = [row EXCEPT ![c.t].value = c.v]
  /\ revealed' = [revealed EXCEPT ![c.t] = c.v]
  /\ visible' = visible \cup {c.t}
  /\ dialog' = IF dialog.kind = "regenerate" THEN Shut ELSE dialog
  /\ UNCHANGED <<secret, locked, crossed, copied, turn>>

\* A rename restores the name, a replacement the whole row.
CallFailed(c) ==
  /\ c \in calls
  /\ c.st = "failed"
  /\ calls' = calls \ {c}
  /\ row' = CASE c.op = "rename"  -> [row EXCEPT ![c.t].name = c.was.name]
              [] c.op = "replace" -> [row EXCEPT ![c.t] = c.was]
              [] OTHER            -> row
  /\ locked' = IF c.op \in {"rename", "replace"} THEN FALSE ELSE locked
  /\ UNCHANGED <<secret, revealed, visible, dialog, crossed, copied, turn>>

TableNext ==
  \/ \E t \in Tokens : toggleReveal(t) \/ copyToken(t)
  \/ \E t \in Tokens, k \in {"rename", "replace", "regenerate"} : OpenDialog(k, t)
  \/ CloseDialog \/ submitRename \/ submitTokenReplace \/ confirmRegenerateToken
  \/ \E c \in calls : CallServed(c) \/ RevealAnswered(c) \/ RenameAnswered(c) \/ ReplaceAnswered(c)
                      \/ RegenerateAnswered(c) \/ CallFailed(c)

TableSpec == TableInit /\ [][TableNext]_tokenVars

-----------------------------------------------------------------------------
(* Properties *)

\* With nothing in flight for a token, its row shows the server's name and
\* value, and a cached value is the server's, unless two requests for the
\* token were under way at once or an answer was lost.
CachedTokenIsLive ==
  \A t \in Tokens \ crossed :
    CallsOf(t) = {} => row[t] = secret[t] /\ revealed[t] \in {None, secret[t].value}

\* The clipboard gets the value that was valid when it was taken: a copy right
\* after a replacement is not the old value (a regeneration still under way
\* excepted: its dialog may be closed and the cached value copied).
CopiedTokenIsLive ==
  \A c \in copied : c.t \notin crossed /\ c.idle => c.value = c.now

\* A locked dialog is waiting for its own request, and is unlocked by it.
DialogNotStuck ==
  locked => /\ dialog # Shut
            /\ \E c \in calls : c.op = dialog.kind /\ c.t = dialog.t

\* However reveals, copies, renamings and replacements overlap: rows, cache and
\* clipboard hold the token that is valid, and a locked dialog is unlocked again.
TokensAgree ==
  /\ CachedTokenIsLive
  /\ CopiedTokenIsLive
  /\ DialogNotStuck

=============================================================================
