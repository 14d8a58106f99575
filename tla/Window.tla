------------------------------- MODULE Window -------------------------------
(***************************************************************************)
(* The desktop's window (src-tauri/src/lib.rs): where it is, which view    *)
(* has it, and whether it is shown.                                        *)
(*                                                                         *)
(* The webview changes its view at once and asks the shell to resize; the  *)
(* shell works through what it was asked later, and tells the webview to   *)
(* collapse when the focus is lost.  Positions are one-dimensional: the    *)
(* other axis follows the same rules.  The window manager answers every    *)
(* query, and does what it is told.                                        *)
(*                                                                         *)
(* Operators named Mut... are bugs that a property of some run must catch; *)
(* no other definition uses them.                                          *)
(***************************************************************************)
EXTENDS Integers, Sequences, FiniteSets

CONSTANTS
  Monitors,   \* the work areas, a sequence of intervals
  Primary,    \* the primary monitor's work area, one of them
  Widths,     \* the width of the window in each view
  Spots,      \* where the user may drag it
  NoPosition, \* a position that was not recorded yet
  MaxDrags,   \* bound on the drags
  MaxPending  \* bound on requests and events under way

Views == {"mini", "detail", "settings"}
Interval == [x : Int, width : Nat]

ASSUME WindowAssumption ==
  /\ Monitors \in Seq(Interval)
  /\ \E m \in DOMAIN Monitors : Monitors[m] = Primary
  /\ Widths \in [Views -> Nat]
  /\ Spots \subseteq Int /\ NoPosition \notin Int
  /\ MaxDrags \in Nat /\ MaxPending \in Nat \ {0}

VARIABLES
  pos, width,  \* the window
  window_mode, \* the view the shell knows of
  view,        \* the view the webview shows
  asked,       \* resizes on their way to the shell
  events,      \* events on their way to the webview
  mini_anchor, \* where the collapsed window was
  applied_position, \* where the program put the window last
  visible,     \* the shell's flag
  shown, minimized, focused, \* the window as the user has it
  blurred,     \* a focus loss is on its way to the shell
  recent,      \* a drag start or a move that is still fresh
  pinned,      \* "Always on top"
  drags,       \* drags so far
  origin,      \* history: where the collapsed window was left
  dragged      \* history: dragged since it expanded and the program moved it

placement == <<pos, width, window_mode, mini_anchor, applied_position, origin,
               dragged>>
showing == <<visible, shown, minimized, focused, blurred>>
windowVars == <<placement, showing, view, asked, events, recent, pinned, drags>>

WindowTypeOK ==
  /\ pos \in Int /\ width \in {Widths[v] : v \in Views}
  /\ window_mode \in Views /\ view \in Views
  /\ asked \in Seq(Views) /\ Len(asked) <= MaxPending + 1
  /\ events \in Seq({"collapse", "open-settings"})
  /\ {mini_anchor, applied_position} \subseteq Int \cup {NoPosition}
  /\ {visible, shown, minimized, focused, blurred, pinned} \subseteq BOOLEAN
  /\ recent \subseteq {"dragging", "moved"}

\* The webview boots into the collapsed view and asks for its size.
WindowInit ==
  /\ pos \in Spots /\ width = Widths["mini"]
  /\ window_mode = "mini" /\ view = "mini"
  /\ asked = <<"mini">> /\ events = <<>>
  /\ mini_anchor = NoPosition /\ applied_position = NoPosition
  /\ visible = TRUE /\ shown = TRUE /\ minimized = FALSE
  /\ focused = TRUE /\ blurred = FALSE
  /\ recent = {} /\ pinned \in BOOLEAN
  /\ drags = 0 /\ origin = pos /\ dragged = FALSE

-----------------------------------------------------------------------------
(***************************************************************************)
(* Placement.                                                              *)
(***************************************************************************)
Rect(x, w) == [x |-> x, width |-> w]
Right(r) == r.x + r.width
Covers(r, x) == r.x <= x /\ x < Right(r)
Larger(x, y) == IF x > y THEN x ELSE y
Smaller(x, y) == IF x < y THEN x ELSE y

OverlapArea(a, b) == Larger(0, Smaller(Right(a), Right(b)) - Larger(a.x, b.x))

\* The monitors with the largest overlap.
Candidates(r) ==
  {m \in DOMAIN Monitors : \A n \in DOMAIN Monitors :
     OverlapArea(r, Monitors[n]) <= OverlapArea(r, Monitors[m])}

\* The one with the largest overlap; of several the one under the left edge,
\* and the primary monitor if that does not decide.
SelectHomeArea(r) ==
  LET under == {m \in Candidates(r) : Covers(Monitors[m], r.x)}
  IN  CASE Cardinality(Candidates(r)) = 1 ->
             Monitors[CHOOSE m \in Candidates(r) : TRUE]
        [] Cardinality(Candidates(r)) # 1 /\ Cardinality(under) = 1 ->
             Monitors[CHOOSE m \in under : TRUE]
        [] OTHER -> Primary

\* Pulled inside, but never out of it on the left.
ClampRect(x, w, area) ==
  LET max_x == Larger(Right(area) - w, area.x)
  IN  IF x < area.x THEN area.x ELSE IF x > max_x THEN max_x ELSE x

\* Where the collapsed window goes that should be at x.
MiniPlace(x) ==
  ClampRect(x, Widths["mini"], SelectHomeArea(Rect(x, Widths["mini"])))

\* Back to the light: to where the user has dragged the window, or to where
\* the collapsed window was.
ResizeToMini ==
  LET moved   == pos # applied_position
      desired == IF moved \/ mini_anchor = NoPosition THEN pos ELSE mini_anchor
      placed  == MiniPlace(desired)
  IN  /\ pos' = placed /\ width' = Widths["mini"]
      /\ mini_anchor' = placed /\ applied_position' = placed
      /\ window_mode' = "mini"
      /\ origin' = placed /\ dragged' = FALSE

Put(x) == /\ pos' = x
          /\ applied_position' = IF x # pos THEN x ELSE applied_position

\* The clamping move is not recorded as the program's.
MutResizeTo(next) ==
  \E home \in IF window_mode = "mini" THEN {SelectHomeArea(Rect(pos, width))}
              ELSE {Monitors[m] : m \in Candidates(Rect(pos, width))} :
    LET placed == ClampRect(pos, Widths[next], home) IN
    /\ pos' = placed /\ UNCHANGED applied_position
    /\ width' = Widths[next] /\ window_mode' = next
    /\ mini_anchor' = IF window_mode = "mini" THEN pos ELSE mini_anchor
    /\ dragged' = (dragged /\ placed = pos)
    /\ UNCHANGED origin

\* Expanding stays on the collapsed window's monitor; another view stays on
\* the one that the window manager says the window is on.
ResizeTo(next) ==
  \E home \in IF window_mode = "mini" THEN {SelectHomeArea(Rect(pos, width))}
              ELSE {Monitors[m] : m \in Candidates(Rect(pos, width))} :
    LET placed == ClampRect(pos, Widths[next], home) IN
    /\ Put(placed)
    /\ width' = Widths[next] /\ window_mode' = next
    /\ mini_anchor' = IF window_mode = "mini" THEN pos ELSE mini_anchor
    /\ dragged' = (dragged /\ placed = pos)
    /\ UNCHANGED origin

\* A move by the program is reported like one by the user.
ResizeWindow ==
  /\ asked # <<>> /\ asked' = Tail(asked)
  /\ IF Head(asked) = "mini" THEN ResizeToMini ELSE ResizeTo(Head(asked))
  /\ recent' = IF pos' # pos THEN recent \cup {"moved"} ELSE recent
  /\ UNCHANGED <<showing, view, events, pinned, drags>>

-----------------------------------------------------------------------------
(***************************************************************************)
(* The webview and the user's hand on it.                                  *)
(***************************************************************************)
SetView(next) == view' = next /\ asked' = Append(asked, next)

OnScreen == shown /\ ~minimized

\* The light opens the list; the list has Collapse and Settings; Settings has
\* Back.
ClickView ==
  /\ OnScreen /\ Len(asked) < MaxPending
  /\ \E next \in CASE view = "mini"     -> {"detail"}
                   [] view = "detail"   -> {"mini", "settings"}
                   [] view = "settings" -> {"detail"} : SetView(next)
  /\ focused' = TRUE
  /\ UNCHANGED <<placement, visible, shown, minimized, blurred, events, recent,
                 pinned, drags>>

\* Changed settings size the light again.
ConfigChanged ==
  /\ view = "mini" /\ Len(asked) < MaxPending
  /\ SetView("mini")
  /\ UNCHANGED <<placement, showing, events, recent, pinned, drags>>

HandleEvent ==
  /\ events # <<>> /\ events' = Tail(events)
  /\ Len(asked) <= MaxPending
  /\ SetView(IF Head(events) = "collapse" THEN "mini" ELSE "settings")
  /\ UNCHANGED <<placement, showing, recent, pinned, drags>>

\* A press on a drag region is reported, then the window moves.
Drag ==
  /\ OnScreen /\ drags < MaxDrags
  /\ drags' = drags + 1
  /\ \E x \in Spots \ {pos} : pos' = x
  /\ focused' = TRUE
  /\ recent' \in {{"moved"}, {"dragging", "moved"}}
  /\ IF window_mode = "mini" THEN origin' = pos' /\ UNCHANGED dragged
                             ELSE dragged' = TRUE /\ UNCHANGED origin
  /\ UNCHANGED <<width, window_mode, mini_anchor, applied_position, visible,
                 shown, minimized, blurred, view, asked, events, pinned>>

\* The button is released, or the report or the move is no longer fresh.
Settle ==
  /\ \E r \in recent : recent' = recent \ {r}
  /\ UNCHANGED <<placement, showing, view, asked, events, pinned, drags>>

TogglePin ==
  /\ pinned' = ~pinned
  /\ UNCHANGED <<placement, showing, view, asked, events, recent, drags>>

-----------------------------------------------------------------------------
(***************************************************************************)
(* Focus, and hiding and showing.                                          *)
(***************************************************************************)
Blur == focused' = FALSE /\ blurred' = (blurred \/ focused)

ClickOutside ==
  /\ focused /\ Blur
  /\ UNCHANGED <<placement, visible, shown, minimized, view, asked, events,
                 recent, pinned, drags>>

ShouldCollapse(own_window) ==
  /\ pinned /\ window_mode = "detail"
  /\ recent = {} /\ ~own_window

\* The cursor may be over the window itself.
FocusLost ==
  /\ blurred /\ blurred' = FALSE
  /\ Len(events) < MaxPending
  /\ \E own_window \in BOOLEAN :
       events' = IF ShouldCollapse(own_window) THEN Append(events, "collapse")
                 ELSE events
  /\ UNCHANGED <<placement, visible, shown, minimized, focused, view, asked,
                 recent, pinned, drags>>

windowRest == <<placement, view, asked, recent, pinned, drags>>

\* The flag is left alone.
MutHide == shown' = FALSE /\ Blur /\ UNCHANGED <<minimized, visible>>

Hide == shown' = FALSE /\ visible' = FALSE /\ Blur /\ UNCHANGED minimized

\* The Hide buttons, and closing the window.
WindowHide == shown /\ Hide /\ UNCHANGED <<windowRest, events>>

WindowMinimize ==
  /\ OnScreen /\ minimized' = TRUE /\ Blur
  /\ UNCHANGED <<windowRest, events, shown, visible>>

ShowWindow ==
  /\ shown' = TRUE /\ minimized' = FALSE /\ focused' = TRUE /\ visible' = TRUE
  /\ UNCHANGED blurred

MenuToggleHides == visible /\ ~minimized

\* The tray menu's Show / Hide.
ToggleWindow ==
  /\ IF MenuToggleHides THEN Hide ELSE ShowWindow
  /\ UNCHANGED <<windowRest, events>>

IconHides == visible /\ ~minimized /\ focused

\* A click on the tray icon.
ToggleWindowFromIcon ==
  /\ IF IconHides THEN Hide ELSE ShowWindow
  /\ UNCHANGED <<windowRest, events>>

\* A second launch shows the window, and so does the tray's Settings.
SecondInstance == ShowWindow /\ UNCHANGED <<windowRest, events>>

OpenSettings ==
  /\ Len(events) < MaxPending
  /\ ShowWindow /\ events' = Append(events, "open-settings")
  /\ UNCHANGED windowRest

WindowNext ==
  \/ ResizeWindow
  \/ ClickView \/ ConfigChanged \/ HandleEvent \/ Drag \/ Settle \/ TogglePin
  \/ ClickOutside \/ FocusLost
  \/ WindowHide \/ WindowMinimize \/ ToggleWindow \/ ToggleWindowFromIcon
  \/ SecondInstance \/ OpenSettings

WindowSpec == WindowInit /\ [][WindowNext]_windowVars

-----------------------------------------------------------------------------
\* Back in the collapsed view the window is where the user left the light,
\* pulled into the work area of that place, whatever views came in between and
\* whichever of them had to be moved; or where the user has dragged it since,
\* unless the program has moved it after that, or that is where the program
\* had put it.
CollapseRestores ==
  [][ asked # <<>> /\ Head(asked) = "mini" /\ asked' = Tail(asked)
      => pos' = MiniPlace(IF dragged /\ pos # applied_position
                          THEN pos ELSE origin)
    ]_windowVars

\* In whichever state a click on the tray icon, or on Show / Hide, comes, it
\* changes what the user sees: nothing is hidden that is not on the screen, and
\* nothing is shown that is in front already.
Seen == IF ~OnScreen THEN "away" ELSE IF focused THEN "front" ELSE "behind"
ClickIsNeverANoOp ==
  \A hides \in {IconHides, MenuToggleHides} :
    IF hides THEN Seen # "away" ELSE Seen # "front"

=============================================================================
