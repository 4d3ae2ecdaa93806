------------------------------- MODULE SelectList ------------------------------
(***************************************************************************)
(* The lists that a control opens below itself, one control in a           *)
(* behaviour: EntitySearchSelectComponent ("entity"), the parent of a      *)
(* category ("parent"), the language ("language") and the states of        *)
(* budgets ("states").  The owner of the control gives it the options and  *)
(* the value, and may give others at any time: the answers that it waits   *)
(* for come while the list is open.  Callbacks after a render come after   *)
(* any number of further events.  A list is an option's index away from    *)
(* what the user sees: active counts the options that are shown.           *)
(***************************************************************************)
EXTENDS ListboxNavigation, Sequences, FiniteSets, Arrays

CONSTANTS
  OptionsOf,  \* for each control, its options in the order of the list
  SearchFor,  \* the texts that are searched
  NoSearch,
  Finds,      \* for each of them, the options whose name contains it
  Spaces,     \* the room above or below the control, in rows
  MaxHeight   \* of a panel

Controls == DOMAIN OptionsOf
Searched == {"entity", "parent"}
Placed == {"entity", "language"}

VARIABLES
  ui,     \* the control
  server  \* what its owner gives it, options and value, and the page, room

vars == <<ui, server>>

AllOptions == UNION {Range(OptionsOf[c]) : c \in Controls}

TypeOK ==
  /\ server \in [options: SUBSET AllOptions, value: SUBSET AllOptions, above: Spaces, below: Spaces]
  /\ ui \in [control: Controls, open: BOOLEAN, query: SearchFor \cup {NoSearch},
             active: -1 .. Cardinality(AllOptions) - 1, awaits: BOOLEAN, placed: BOOLEAN, up: BOOLEAN, room: Spaces,
             touched: BOOLEAN, stale: BOOLEAN]

\* touched (history): a key or a text since the list was opened.
\* stale (history): the owner gave others since active was last set.
Init ==
  \E c \in Controls, o \in AllOptions, above \in Spaces, below \in Spaces :
    /\ o \in Range(OptionsOf[c])
    /\ c # "entity" => above = below
    /\ server = [options |-> Range(OptionsOf[c]), value |-> {o}, above |-> above, below |-> below]
    /\ ui = [control |-> c, open |-> FALSE, query |-> NoSearch, active |-> -1, awaits |-> FALSE, placed |-> FALSE, up |-> FALSE, room |-> below,
             touched |-> FALSE, stale |-> FALSE]

--------------------------------------------------------------------------------
(* The handlers.                                                           *)

\* Entity: filteredOptions.  Parent: visibleValues, of which the root is one.
FilteredOptions(u) ==
  Filter(OptionsOf[u.control], {o \in server.options : u.query = NoSearch \/ o \in Finds[u.query]})
VisibleValues(u) == FilteredOptions(u)

\* The option at an index of the list, {} when there is none.
OptionAt(u, i) == IF i \in 0 .. Len(VisibleValues(u)) - 1 THEN {VisibleValues(u)[i + 1]} ELSE {}

\* The index of the value, else of the first option.
SyncActiveIndex(u) ==
  LET n == Len(VisibleValues(u))
      at == {i \in 0 .. n - 1 : OptionAt(u, i) \subseteq server.value}
  IN  [u EXCEPT !.stale = FALSE,
                !.active = CASE n = 0 -> -1 [] at # {} -> CHOOSE i \in at : TRUE [] n > 0 /\ at = {} -> 0]

OpenLanguages(u) ==
  [u EXCEPT !.open = TRUE, !.active = IF server.value = {OptionsOf["language"][1]} THEN 0 ELSE 1]

\* The list is placed after the next render.
AwaitRender(u) == [u EXCEPT !.awaits = TRUE]

\* resolvePanelGeometry for a panel of a height, below unless it fits above
\* only, or nowhere and there is more room above.
Geometry(u, page, height) ==
  LET up == height > page.below /\ (height <= page.above \/ page.above > page.below)
  IN  [u EXCEPT !.up = up, !.room = IF up THEN page.above ELSE page.below]

\* What the search field and the options take, once they are rendered.
Height(u) == LET rows == Len(VisibleValues(u)) + 1 IN IF rows < MaxHeight THEN rows ELSE MaxHeight

OpenEntities(u) ==
  Geometry(AwaitRender(SyncActiveIndex([u EXCEPT !.query = NoSearch, !.open = TRUE])), server, MaxHeight)

OpenParents(u) == SyncActiveIndex([u EXCEPT !.query = NoSearch, !.open = TRUE])

OpenStates(u, i) == [u EXCEPT !.open = TRUE, !.active = i, !.stale = FALSE]

OpenList(u) ==
  LET opened == CASE u.control = "entity" -> OpenEntities(u)
                  [] u.control = "parent" -> OpenParents(u)
                  [] u.control = "language" -> AwaitRender(OpenLanguages(u))
                  [] u.control = "states" -> OpenStates(u, 0)
  IN  [opened EXCEPT !.touched = FALSE]

\* A list that is gone is not watched any more.
CloseList(u) == [u EXCEPT !.open = FALSE, !.query = NoSearch, !.active = -1, !.placed = FALSE, !.stale = FALSE]

MoveActive(u, k) ==
  [u EXCEPT !.active = NextIndex(@, Len(VisibleValues(u)), k), !.touched = TRUE, !.stale = FALSE]

\* The states are never all given up.
ToggleState(o) ==
  LET selected == IF o \in server.value THEN server.value \ {o} ELSE server.value \cup {o}
  IN  IF selected = {} THEN server.value ELSE selected

\* The owner takes the value that it is told.
Choose(o) ==
  /\ ui' = CloseList(ui)
  /\ server' = [server EXCEPT !.value = {o}]

Take(o) ==
  IF ui.control = "states"
  THEN server' = [server EXCEPT !.value = ToggleState(o)] /\ ui' = [ui EXCEPT !.touched = TRUE]
  ELSE Choose(o)

Show(u) == ui' = u /\ UNCHANGED server

--------------------------------------------------------------------------------
(* The user.                                                               *)

ToggleList == IF ui.open THEN Show(CloseList(ui)) ELSE Show(OpenList(ui))

UpdateQuery(q) ==
  /\ ui.control \in Searched /\ ui.open /\ q # ui.query
  /\ Show(SyncActiveIndex([ui EXCEPT !.query = q, !.touched = TRUE]))

\* A navigation key opens a closed list; that of the states opens at an end.
Navigate(k) ==
  IF ui.open THEN Show(MoveActive(ui, k))
  ELSE IF ui.control = "states"
       THEN Show(OpenStates(ui, IF k \in {"ArrowUp", "End"} THEN Len(VisibleValues(ui)) - 1 ELSE 0))
       ELSE Show(OpenList(ui))

\* Enter takes the active option, when the list still has it.
Enter == ui.open /\ \E o \in OptionAt(ui, ui.active) : Take(o)

\* The second of two languages is told from all else.
EnterLanguage ==
  /\ ui.control = "language" /\ ui.open
  /\ Choose(OptionsOf["language"][IF ui.active = 1 THEN 2 ELSE 1])

Click(o) == ui.open /\ o \in Range(VisibleValues(ui)) /\ Take(o)

\* A click elsewhere, or Escape.
Dismiss == ui.open /\ Show(CloseList(ui))

--------------------------------------------------------------------------------
(* The browser and the owner.                                              *)

\* The list is placed, and watched, if it is open when it is rendered.
AfterRender ==
  /\ ui.awaits
  /\ LET rendered == [ui EXCEPT !.awaits = FALSE, !.placed = ui.open]
     IN  Show(IF ui.open /\ ui.control = "entity" THEN Geometry(rendered, server, Height(ui)) ELSE rendered)

\* The page is scrolled or resized, or a part of it is, and the control is
\* elsewhere.  An open list hears of the first; of the second (the sidebar
\* opens) only what watches the elements around it.
PageMoves(above, below, heard) ==
  LET page == [server EXCEPT !.above = above, !.below = below] IN
  /\ ui.control = "entity" /\ page # server
  /\ server' = page
  /\ ui' = IF ui.open /\ (heard \/ ui.placed)
           THEN Geometry(ui, page, IF ui.placed THEN Height(ui) ELSE MaxHeight) ELSE ui

\* Answers replace the options, those excluded are left out; forms are reset.
OwnerGives(options, value) ==
  LET given == [server EXCEPT !.options = options, !.value = value] IN
  /\ given # server
  /\ CASE ui.control = "entity" -> TRUE
       [] ui.control = "parent" -> OptionsOf["parent"][1] \in options
       [] ui.control = "language" -> options = server.options
       [] ui.control = "states" -> FALSE
  /\ server' = given
  /\ ui' = [ui EXCEPT !.stale = ui.open]

Next ==
  \/ ToggleList \/ Dismiss \/ AfterRender \/ EnterLanguage
  \/ ui.control # "language" /\ Enter
  \/ \E q \in SearchFor \cup {NoSearch} : UpdateQuery(q)
  \/ \E k \in NavigationKeys : Navigate(k)
  \/ \E above, below \in Spaces, heard \in BOOLEAN : PageMoves(above, below, heard)
  \/ \E o \in Range(OptionsOf[ui.control]) :
       \/ Click(o)
       \/ \E options \in SUBSET Range(OptionsOf[ui.control]) : OwnerGives(options, {o})

--------------------------------------------------------------------------------
\* A closed list is not placed and watched any more, also when it closes
\* before the render that it waited for (the spec of the select: "observes
\* container resizing while open and releases the observer on selection").
BusyIsPending ==
  /\ ui.placed => ui.open
  /\ ui.open /\ ui.control \in Placed => ui.placed \/ ui.awaits

\* Unless the owner changed it since the last key, a list has an active
\* option whenever it has one; right after it is opened that is the value, so
\* that Enter changes nothing; a closed list begins anew.  A list that is
\* placed has the room that there is now, above only if there is more of it.
\* The states of budgets are never none.
SettledIsServers ==
  /\ ~ui.open => ui.query = NoSearch /\ ui.active = -1
  /\ ui.open /\ ~ui.stale => (OptionAt(ui, ui.active) = {} <=> VisibleValues(ui) = <<>>)
  /\ ui.open /\ ~ui.stale /\ ~ui.touched /\ ui.control # "states" /\ server.value \subseteq server.options
       => OptionAt(ui, ui.active) = server.value
  /\ ui.open /\ ui.placed /\ ui.control = "entity" =>
       /\ ui.room = IF ui.up THEN server.above ELSE server.below
       /\ ui.up => server.above > server.below
  /\ server.value # {}
================================================================================
