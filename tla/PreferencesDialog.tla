---------------------------- MODULE PreferencesDialog --------------------------
(***************************************************************************)
(* The preferences of a user in a tab: PreferencesService, ThemeService    *)
(* and I18nService with what the browser keeps, the read at the start of   *)
(* the authenticated pages, and the dialog that previews and saves.        *)
(* Exchanges as in SecurityDialog; a GET and the PUT that initialises      *)
(* preferences at the start are one exchange after the other.              *)
(***************************************************************************)
EXTENDS Naturals

CONSTANTS Themes, Languages, None

Prefs == [theme: Themes, language: Languages]
Slots == {"startup", "save", "latest"}

VARIABLES
  ui,     \* the services and PreferencesDialogComponent
  server  \* the stored preferences, None before the first use

vars == <<ui, server>>

Asked == [at: {"sent", "answered", "refused"}, put: BOOLEAN, value: Prefs]
Exchanges == Asked \cup {None}

Pages == [kept: Prefs, shown: Prefs, current: Prefs, last: Prefs, form: Prefs,
          open: BOOLEAN, saving: BOOLEAN, closing: BOOLEAN,
          http: [Slots -> Exchanges], fresh: BOOLEAN, raced: BOOLEAN]

TypeOK ==
  /\ server \in Prefs \cup {None}
  /\ ui \in Pages

Exchange(put, value) == [at |-> "sent", put |-> put, value |-> value]

\* The page is loaded and entered: what is kept is shown, the server is asked.
Start(kept) ==
  [kept |-> kept, shown |-> kept, current |-> kept, last |-> kept, form |-> kept,
   open |-> FALSE, saving |-> FALSE, closing |-> FALSE,
   http |-> [k \in Slots |-> IF k = "startup" THEN Exchange(FALSE, kept) ELSE None],
   fresh |-> FALSE,  \* history: current was read or saved, and no later answer was lost
   raced |-> FALSE]  \* history: the dialog was open before the start was over

Init == server \in Prefs \cup {None} /\ ui \in {Start(p) : p \in Prefs}

--------------------------------------------------------------------------------
(* The handlers.                                                           *)

\* I18nService.setLanguage and ThemeService.set keep what they show.
Show(u, p) == [u EXCEPT !.shown = p, !.kept = p]

\* committedTheme and committedLanguage are those of lastServerPreferences.
ApplyPreferences(u, p) == [Show(u, p) EXCEPT !.last = p, !.form = p]

Ask(u, k, put, value) == [u EXCEPT !.http[k] = Exchange(put, value)]

RequestClose(u) == Ask([u EXCEPT !.closing = TRUE], "latest", FALSE, u.form)

Closed(u) == [u EXCEPT !.closing = FALSE, !.open = FALSE]

Become(u) == ui' = u /\ UNCHANGED server

--------------------------------------------------------------------------------
(* The user.  The choices of the dialog stay enabled while it saves.       *)

Open ==
  /\ ~ui.open
  /\ Become([ApplyPreferences(ui, ui.current) EXCEPT !.open = TRUE, !.raced = @ \/ ui.http["startup"] # None])

SetLanguage(l) ==
  /\ ui.open /\ l # ui.form.language
  /\ Become([ui EXCEPT !.form.language = l, !.shown.language = l, !.kept.language = l])

\* A preview: it is not kept.
SetTheme(t) ==
  /\ ui.open /\ t # ui.form.theme
  /\ Become([ui EXCEPT !.form.theme = t, !.shown.theme = t])

Save ==
  /\ ui.open /\ ~ui.saving /\ ~ui.closing
  /\ Become(Ask([ui EXCEPT !.saving = TRUE], "save", TRUE, ui.form))

Close == ui.open /\ ~ui.saving /\ ~ui.closing /\ Become(RequestClose(ui))

\* The page is loaded anew at any time.
Reload == Become(Start(ui.kept))

--------------------------------------------------------------------------------
(* The server.                                                             *)

\* Preferences that are not set are an answer like others.
ServeUnset(k) ==
  LET q == ui.http[k] IN
  /\ q # None /\ q.at = "sent"
  /\ server' = IF q.put THEN q.value ELSE server
  /\ ui' = [ui EXCEPT !.http[k] = [q EXCEPT !.at = "answered", !.value = server']]

\* A GET of preferences that are not set is refused (404).
Serve(k) ==
  LET q == ui.http[k] IN
  /\ q # None /\ q.at = "sent"
  /\ server' = IF q.put THEN q.value ELSE server
  /\ ui' = [ui EXCEPT !.http[k] =
              IF server' = None THEN [q EXCEPT !.at = "refused"]
              ELSE [q EXCEPT !.at = "answered", !.value = server']]

--------------------------------------------------------------------------------
(* The answers.                                                            *)

Answered(k) == ui.http[k] # None /\ ui.http[k].at = "answered"
Value(k) == ui.http[k].value

\* PreferencesService.get and save note what they get.
Noted(k) == [ui EXCEPT !.http[k] = None, !.current = Value(k), !.fresh = TRUE]

StartupAnswer == Answered("startup") /\ Become(Show(Noted("startup"), Value("startup")))

\* 404: the preferences are initialised from the ones on the screen.
StartupNotFound ==
  /\ ui.http["startup"] # None /\ ui.http["startup"].at = "refused"
  /\ Become(Ask(ui, "startup", TRUE, ui.shown))

SaveAnswer ==
  /\ Answered("save")
  /\ Become(RequestClose(Show([Noted("save") EXCEPT !.saving = FALSE, !.last = Value("save")], Value("save"))))

\* restoreAfterSaveFailure.
SaveFailed == ApplyPreferences([ui EXCEPT !.saving = FALSE], ui.last)

LatestAnswer ==
  Answered("latest") /\ Become(Closed(ApplyPreferences(Noted("latest"), Value("latest"))))

\* The latest cannot be read: what was committed is shown.
CloseOnFailure == Closed(Show(ui, ui.last))

\* The request or its answer is lost, or the answer is an error.
Fail(k) ==
  LET q == ui.http[k] IN
  /\ q # None /\ (q.at = "refused" => k = "latest")
  /\ LET told == CASE k = "startup" -> ui [] k = "save" -> SaveFailed [] k = "latest" -> CloseOnFailure
     IN  Become([told EXCEPT !.http[k] = None, !.fresh = @ /\ ~(q.put /\ q.at = "answered")])

Next ==
  \/ Open \/ Save \/ Close \/ Reload
  \/ \E l \in Languages : SetLanguage(l)
  \/ \E t \in Themes : SetTheme(t)
  \/ \E k \in Slots : Serve(k) \/ Fail(k)
  \/ StartupAnswer \/ StartupNotFound \/ SaveAnswer \/ LatestAnswer

--------------------------------------------------------------------------------
\* The dialog saves or closes while the exchange of that is under way.
BusyIsPending ==
  /\ ui.saving <=> ui.http["save"] # None
  /\ ui.closing <=> ui.http["latest"] # None

\* A closed dialog leaves no preview behind: the page shows, and the browser
\* keeps, the preferences that the frontend knows, which are the server's;
\* unless the dialog was open while the start was still under way.
SettledIsServers ==
  /\ ~ui.open /\ ~ui.raced => ui.shown = ui.current /\ ui.kept = ui.current
  /\ ~ui.open /\ ~ui.raced /\ ui.fresh => ui.current = server
================================================================================
