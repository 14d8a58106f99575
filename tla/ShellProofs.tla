---------------------------- MODULE ShellProofs -----------------------------
(***************************************************************************)
(* What holds of the desktop's shell and of the hub's paired devices: the  *)
(* window, for any monitors and any drags; the devices, for any number of  *)
(* requests, devices and servers; the settings, for any settings.  Last,   *)
(* the parts together as MCShell has them.                                 *)
(***************************************************************************)
EXTENDS MCShell, FileReplaceProofs, SequenceTheorems, FiniteSetTheorems,
        TLAPS

-----------------------------------------------------------------------------
(***************************************************************************)
(* The window: what the user sees.                                         *)
(***************************************************************************)

\* The shell's flag and the window agree, whoever hides or shows it.
FlagAgrees ==
  /\ {visible, shown, minimized, focused, blurred} \subseteq BOOLEAN
  /\ visible = shown

\* Every step of the window keeps the flag true to what is shown.
LEMMA FlagStep == FlagAgrees /\ [WindowNext]_windowVars => FlagAgrees'
<1> SUFFICES ASSUME FlagAgrees, [WindowNext]_windowVars
             PROVE  FlagAgrees'
  OBVIOUS
<1> USE DEF FlagAgrees
<1>1. CASE UNCHANGED showing
  BY <1>1 DEF showing
<1>2. CASE ResizeWindow \/ ConfigChanged \/ HandleEvent \/ Settle \/ TogglePin
           \/ UNCHANGED windowVars
  BY <1>1, <1>2 DEF ResizeWindow, ConfigChanged, HandleEvent, Settle, TogglePin,
                    windowVars
<1>3. CASE ClickView \/ Drag \/ ClickOutside \/ FocusLost
  BY <1>3 DEF ClickView, Drag, ClickOutside, FocusLost, Blur
<1>4. CASE WindowHide \/ WindowMinimize
  BY <1>4 DEF WindowHide, WindowMinimize, Hide, Blur
<1>5. CASE ToggleWindow \/ ToggleWindowFromIcon \/ SecondInstance \/ OpenSettings
  BY <1>5 DEF ToggleWindow, ToggleWindowFromIcon, SecondInstance, OpenSettings,
              ShowWindow, Hide, Blur
<1>6. QED
  BY <1>2, <1>3, <1>4, <1>5 DEF WindowNext

\* A click on the tray icon or on Show / Hide always changes what the user
\* sees.
THEOREM ClickAlwaysActs == WindowSpec => []ClickIsNeverANoOp
<1>1. WindowInit => FlagAgrees
  BY DEF WindowInit, FlagAgrees
<1>2. FlagAgrees => ClickIsNeverANoOp
  <2> SUFFICES ASSUME FlagAgrees
               PROVE  ClickIsNeverANoOp
    OBVIOUS
  <2>1. IF IconHides THEN Seen # "away" ELSE Seen # "front"
    BY DEF FlagAgrees, IconHides, Seen, OnScreen
  <2>2. IF MenuToggleHides THEN Seen # "away" ELSE Seen # "front"
    BY DEF FlagAgrees, MenuToggleHides, Seen, OnScreen
  <2>3. SUFFICES ASSUME NEW hides \in {IconHides, MenuToggleHides}
                 PROVE  IF hides THEN Seen # "away" ELSE Seen # "front"
    BY DEF ClickIsNeverANoOp
  <2>4. CASE hides = IconHides
    BY <2>1, <2>4, Zenon
  <2>5. CASE hides = MenuToggleHides
    BY <2>2, <2>5, Zenon
  <2>6. QED
    BY <2>4, <2>5
<1>3. QED
  BY <1>1, <1>2, FlagStep, PTL DEF WindowSpec

-----------------------------------------------------------------------------
(***************************************************************************)
(* The window: types, and where the collapsed window goes.                 *)
(***************************************************************************)

\* Whichever rule decides, a window's home is a work area.
LEMMA HomeIsArea == \A r : SelectHomeArea(r) \in Interval
<1> SUFFICES ASSUME NEW r
             PROVE  SelectHomeArea(r) \in Interval
  OBVIOUS
<1>1. \A m \in DOMAIN Monitors : Monitors[m] \in Interval
  BY WindowAssumption, ElementOfSeq, LenProperties
<1>2. Primary \in Interval
  BY <1>1, WindowAssumption
<1>3. \A S : Cardinality(S) = 1 => S # {}
  BY FS_EmptySet
<1> DEFINE under == {m \in Candidates(r) : Covers(Monitors[m], r.x)}
<1>4. Candidates(r) \subseteq DOMAIN Monitors /\ under \subseteq Candidates(r)
  BY DEF Candidates
<1>5. Cardinality(Candidates(r)) = 1
        => (CHOOSE m \in Candidates(r) : TRUE) \in Candidates(r)
  BY <1>3
<1>6. Cardinality(under) = 1 => (CHOOSE m \in under : TRUE) \in under
  BY <1>3
<1>7. CASE Cardinality(Candidates(r)) = 1
  BY <1>1, <1>4, <1>5, <1>7 DEF SelectHomeArea
<1>8. CASE Cardinality(Candidates(r)) # 1 /\ Cardinality(under) = 1
  BY <1>1, <1>4, <1>6, <1>8 DEF SelectHomeArea
<1>9. CASE Cardinality(Candidates(r)) # 1 /\ Cardinality(under) # 1
  BY <1>2, <1>9 DEF SelectHomeArea
<1>10. QED
  BY <1>7, <1>8, <1>9

\* Pulling a window inside an area leaves it at a position.
LEMMA ClampType ==
  ASSUME NEW x \in Int, NEW w \in Nat, NEW area \in Interval
  PROVE  ClampRect(x, w, area) \in Int
BY DEF ClampRect, Right, Larger, Interval

\* The collapsed window is put at a position.
LEMMA MiniPlaceType == \A x \in Int : MiniPlace(x) \in Int
BY HomeIsArea, ClampType, WindowAssumption DEF MiniPlace, Views

\* The types, those of the history variables included.
WindowTyped == WindowTypeOK /\ origin \in Int /\ dragged \in BOOLEAN

\* A resize keeps the types of the placement.
PlacementTyped ==
  /\ pos \in Int /\ width \in {Widths[v] : v \in Views}
  /\ window_mode \in Views
  /\ {mini_anchor, applied_position} \subseteq Int \cup {NoPosition}
  /\ origin \in Int /\ dragged \in BOOLEAN

\* Resizing keeps them.
LEMMA ResizeTyped ==
  ASSUME PlacementTyped, NEW next \in Views,
         IF next = "mini" THEN ResizeToMini ELSE ResizeTo(next)
  PROVE  PlacementTyped'
<1>1. CASE next = "mini"
  <2>1. ResizeToMini
    BY <1>1
  <2>2. pos' \in Int
    BY <2>1, MiniPlaceType DEF ResizeToMini, PlacementTyped
  <2>3. QED
    BY <2>1, <2>2 DEF ResizeToMini, PlacementTyped, Views
<1>2. CASE next # "mini"
  <2>1. ResizeTo(next)
    BY <1>2
  <2>2. \A m \in DOMAIN Monitors : Monitors[m] \in Interval
    BY WindowAssumption, ElementOfSeq, LenProperties
  <2>3. PICK home \in Interval :
          LET placed == ClampRect(pos, Widths[next], home) IN
          /\ Put(placed)
          /\ width' = Widths[next] /\ window_mode' = next
          /\ mini_anchor' = IF window_mode = "mini" THEN pos ELSE mini_anchor
          /\ dragged' = (dragged /\ placed = pos)
          /\ UNCHANGED origin
    BY <2>1, <2>2, HomeIsArea DEF ResizeTo, Candidates
  <2>4. ClampRect(pos, Widths[next], home) \in Int
    BY ClampType, WindowAssumption DEF PlacementTyped
  <2>5. dragged' \in BOOLEAN
    BY <2>3
  <2>6. QED
    BY <2>3, <2>4, <2>5 DEF PlacementTyped, Put
<1>3. QED
  BY <1>1, <1>2

\* What the webview asked and what it was told are lists of what they are for.
WaitingTyped ==
  /\ asked \in Seq(Views) /\ Len(asked) <= MaxPending + 1
  /\ events \in Seq({"collapse", "open-settings"})

\* Asking for a view adds it to what was asked.
LEMMA SetViewTyped ==
  ASSUME WindowTypeOK, Len(asked) <= MaxPending, NEW next \in Views,
         SetView(next)
  PROVE  /\ asked' \in Seq(Views) /\ Len(asked') <= MaxPending + 1
         /\ view' \in Views
BY WindowAssumption DEF WindowTypeOK, SetView

\* Every step of window and webview keeps the types.
LEMMA WindowTypedStep == WindowTyped /\ [WindowNext]_windowVars => WindowTyped'
<1> SUFFICES ASSUME WindowTyped, [WindowNext]_windowVars
             PROVE  WindowTyped'
  OBVIOUS
<1> DEFINE Seens == {visible, shown, minimized, focused, blurred, pinned}
<1>0. /\ PlacementTyped /\ WaitingTyped /\ view \in Views
      /\ Seens \subseteq BOOLEAN /\ recent \subseteq {"dragging", "moved"}
  BY DEF WindowTyped, WindowTypeOK, PlacementTyped, WaitingTyped
<1>a. ASSUME PlacementTyped', WaitingTyped', view' \in Views,
             Seens' \subseteq BOOLEAN, recent' \subseteq {"dragging", "moved"}
      PROVE  WindowTyped'
  BY <1>a DEF WindowTyped, WindowTypeOK, PlacementTyped, WaitingTyped
<1>b. UNCHANGED placement => PlacementTyped'
  BY <1>0 DEF placement, PlacementTyped
<1>c. UNCHANGED <<asked, events>> => WaitingTyped'
  BY <1>0 DEF WaitingTyped
<1>d. UNCHANGED <<showing, pinned>> => Seens' \subseteq BOOLEAN
  BY <1>0 DEF showing
<1> HIDE DEF Seens
<1>1. CASE ResizeWindow
  <2>1. /\ Head(asked) \in Views /\ Tail(asked) \in Seq(Views)
        /\ Len(Tail(asked)) <= Len(asked)
    BY <1>0, <1>1, HeadTailProperties, LenProperties DEF ResizeWindow, WaitingTyped
  <2>2. PlacementTyped'
    BY <1>0, <1>1, <2>1, ResizeTyped DEF ResizeWindow
  <2>3. WaitingTyped'
    BY <1>0, <1>1, <2>1, WindowAssumption, LenProperties
       DEF ResizeWindow, WaitingTyped
  <2>4. QED
    BY <1>0, <1>1, <1>a, <1>d, <2>2, <2>3 DEF ResizeWindow
<1>2. CASE ClickView \/ ConfigChanged
  <2>1. \E next \in Views : SetView(next)
    BY <1>0, <1>2 DEF ClickView, ConfigChanged, Views
  <2>2. Len(asked) <= MaxPending
    BY <1>0, <1>2, WindowAssumption DEF ClickView, ConfigChanged, WaitingTyped
  <2>3. WaitingTyped' /\ view' \in Views
    BY <1>0, <1>2, <2>1, <2>2, SetViewTyped
       DEF ClickView, ConfigChanged, WaitingTyped, WindowTyped
  <2>4. Seens' \subseteq BOOLEAN
    BY <1>0, <1>2 DEF ClickView, ConfigChanged, showing, Seens
  <2>5. QED
    BY <1>0, <1>2, <1>a, <1>b, <2>3, <2>4 DEF ClickView, ConfigChanged
<1>3. CASE HandleEvent
  <2>1. PICK next \in Views : SetView(next)
    BY <1>3 DEF HandleEvent, Views
  <2>2. asked' \in Seq(Views) /\ Len(asked') <= MaxPending + 1 /\ view' \in Views
    BY <1>3, <2>1, SetViewTyped DEF HandleEvent, WindowTyped
  <2>3. events' \in Seq({"collapse", "open-settings"})
    BY <1>0, <1>3 DEF HandleEvent, WaitingTyped
  <2>4. QED
    BY <1>0, <1>3, <1>a, <1>b, <1>d, <2>2, <2>3 DEF HandleEvent, WaitingTyped
<1>4. CASE Drag
  <2>1. PlacementTyped'
    BY <1>0, <1>4, WindowAssumption DEF Drag, PlacementTyped
  <2>2. Seens' \subseteq BOOLEAN
    BY <1>0, <1>4 DEF Drag, Seens
  <2>3. QED
    BY <1>0, <1>4, <1>a, <1>c, <2>1, <2>2 DEF Drag
<1>5. CASE Settle \/ TogglePin
  <2>1. Seens' \subseteq BOOLEAN
    BY <1>0, <1>5 DEF Settle, TogglePin, showing, Seens
  <2>2. QED
    BY <1>0, <1>5, <1>a, <1>b, <1>c, <2>1 DEF Settle, TogglePin
<1>6. CASE ClickOutside
  <2>1. Seens' \subseteq BOOLEAN
    BY <1>0, <1>6 DEF ClickOutside, Blur, Seens
  <2>2. QED
    BY <1>0, <1>6, <1>a, <1>b, <1>c, <2>1 DEF ClickOutside
<1>7. CASE FocusLost
  <2>1. Seens' \subseteq BOOLEAN
    BY <1>0, <1>7 DEF FocusLost, Seens
  <2>2. WaitingTyped'
    BY <1>0, <1>7 DEF FocusLost, WaitingTyped
  <2>3. QED
    BY <1>0, <1>7, <1>a, <1>b, <2>1, <2>2 DEF FocusLost
<1>8. CASE WindowHide \/ WindowMinimize
  <2>1. Seens' \subseteq BOOLEAN
    BY <1>0, <1>8 DEF WindowHide, WindowMinimize, Hide, Blur, windowRest, Seens
  <2>2. QED
    BY <1>0, <1>8, <1>a, <1>b, <1>c, <2>1 DEF WindowHide, WindowMinimize, windowRest
<1>9. CASE ToggleWindow \/ ToggleWindowFromIcon \/ SecondInstance \/ OpenSettings
  <2>1. Seens' \subseteq BOOLEAN
    BY <1>0, <1>9 DEF ToggleWindow, ToggleWindowFromIcon, SecondInstance,
                      OpenSettings, ShowWindow, Hide, Blur, windowRest, Seens
  <2>2. UNCHANGED windowRest
    BY <1>9, Zenon DEF ToggleWindow, ToggleWindowFromIcon, SecondInstance,
                       OpenSettings, windowRest
  <2>3. WaitingTyped'
    <3>1. asked' = asked
      BY <1>9, Zenon DEF ToggleWindow, ToggleWindowFromIcon, SecondInstance,
                         OpenSettings, windowRest
    <3>2. events' = events \/ events' = Append(events, "open-settings")
      BY <1>9, Zenon DEF ToggleWindow, ToggleWindowFromIcon, SecondInstance,
                         OpenSettings
    <3>3. QED
      BY <1>0, <3>1, <3>2 DEF WaitingTyped
  <2>4. QED
    BY <1>0, <1>a, <1>b, <2>1, <2>2, <2>3 DEF windowRest
<1>10. CASE UNCHANGED windowVars
  BY <1>0, <1>10, <1>a, <1>b, <1>c, <1>d DEF windowVars
<1>11. QED
  BY <1>1, <1>2, <1>3, <1>4, <1>5, <1>6, <1>7, <1>8, <1>9, <1>10 DEF WindowNext

\* Types, history included, are an invariant of the window.
LEMMA WindowTypedAlways == WindowSpec => []WindowTyped
<1>1. WindowInit => WindowTyped
  <2> SUFFICES ASSUME WindowInit
               PROVE  WindowTyped
    OBVIOUS
  <2>1. /\ asked \in Seq(Views) /\ Len(asked) <= MaxPending + 1
        /\ events \in Seq({"collapse", "open-settings"})
    BY WindowAssumption DEF WindowInit, Views
  <2>2. /\ {visible, shown, minimized, focused, blurred, pinned} \subseteq BOOLEAN
        /\ dragged \in BOOLEAN
    BY DEF WindowInit
  <2>3. /\ pos \in Int /\ origin \in Int
        /\ {mini_anchor, applied_position} \subseteq Int \cup {NoPosition}
    BY WindowAssumption DEF WindowInit
  <2>4. /\ window_mode \in Views /\ view \in Views
        /\ width \in {Widths[v] : v \in Views}
        /\ recent \subseteq {"dragging", "moved"}
    BY DEF WindowInit, Views
  <2>5. QED
    BY <2>1, <2>2, <2>3, <2>4 DEF WindowTyped, WindowTypeOK
<1>2. QED
  BY <1>1, WindowTypedStep, PTL DEF WindowSpec

\* Every state of the window is well typed.
THEOREM WindowTypeCorrect == WindowSpec => []WindowTypeOK
<1>1. WindowTyped => WindowTypeOK
  BY DEF WindowTyped
<1>2. QED
  BY <1>1, WindowTypedAlways, PTL

\* Where the light belongs.  Collapsed, it is there.  Expanded, the anchor says
\* where; if the window is elsewhere and the user has not dragged it, that is
\* where the program put it.
Placed ==
  /\ window_mode = "mini" =>
       /\ pos = origin /\ ~dragged
       /\ mini_anchor = applied_position
  /\ window_mode # "mini" =>
       /\ mini_anchor = origin
       /\ ~dragged /\ pos # applied_position => pos = origin

\* Back in the collapsed view the window goes to where the light belongs, or
\* to where the user has dragged it.
LEMMA CollapsedPlace ==
  ASSUME WindowTyped, Placed, ResizeToMini
  PROVE  pos' = MiniPlace(IF dragged /\ pos # applied_position
                          THEN pos ELSE origin)
<1> DEFINE desired == IF pos # applied_position \/ mini_anchor = NoPosition
                      THEN pos ELSE mini_anchor
<1>1. pos' = MiniPlace(desired)
  BY DEF ResizeToMini
<1>2. desired = IF dragged /\ pos # applied_position THEN pos ELSE origin
  BY WindowAssumption DEF WindowTyped, WindowTypeOK, Placed
<1>3. QED
  BY <1>1, <1>2

\* Every step keeps the light's place known.
LEMMA PlacedStep ==
  WindowTyped /\ Placed /\ [WindowNext]_windowVars => Placed'
<1> SUFFICES ASSUME WindowTyped, Placed, [WindowNext]_windowVars
             PROVE  Placed'
  OBVIOUS
<1>1. ASSUME UNCHANGED placement
      PROVE  Placed'
  BY <1>1 DEF placement, Placed
<1>2. CASE ResizeWindow /\ Head(asked) = "mini"
  BY <1>2 DEF ResizeWindow, ResizeToMini, Placed
<1>3. CASE ResizeWindow /\ Head(asked) # "mini"
  <2>1. ResizeTo(Head(asked)) /\ Head(asked) \in Views
    BY <1>3, HeadTailProperties DEF ResizeWindow, WindowTyped, WindowTypeOK
  <2>2. PICK placed \in Int \cup {pos'} :
          /\ Put(placed) /\ window_mode' = Head(asked)
          /\ mini_anchor' = IF window_mode = "mini" THEN pos ELSE mini_anchor
          /\ dragged' = (dragged /\ placed = pos)
          /\ UNCHANGED origin
    BY <2>1 DEF ResizeTo, Put
  <2>3. CASE placed = pos
    BY <1>3, <2>2, <2>3 DEF Put, Placed
  <2>4. CASE placed # pos
    <3>1. pos' = placed /\ applied_position' = placed /\ ~dragged'
      BY <2>2, <2>4 DEF Put
    <3>2. QED
      BY <1>3, <2>2, <3>1 DEF Placed
  <2>5. QED
    BY <2>3, <2>4
<1>4. CASE Drag
  <2>1. /\ IF window_mode = "mini" THEN origin' = pos' /\ UNCHANGED dragged
                                   ELSE dragged' = TRUE /\ UNCHANGED origin
        /\ UNCHANGED <<window_mode, mini_anchor, applied_position>>
    BY <1>4 DEF Drag
  <2>2. CASE window_mode # "mini"
    BY <2>1, <2>2 DEF Placed
  <2>3. CASE window_mode = "mini"
    BY <2>1, <2>3 DEF Placed
  <2>4. QED
    BY <2>2, <2>3
<1>5. CASE ClickView \/ ConfigChanged \/ HandleEvent \/ Settle \/ TogglePin
           \/ ClickOutside \/ FocusLost
  BY <1>1, <1>5 DEF ClickView, ConfigChanged, HandleEvent, Settle, TogglePin,
                    ClickOutside, FocusLost
<1>6. CASE WindowHide \/ WindowMinimize \/ ToggleWindow \/ ToggleWindowFromIcon
           \/ SecondInstance \/ OpenSettings
  BY <1>1, <1>6 DEF WindowHide, WindowMinimize, ToggleWindow, SecondInstance,
                    ToggleWindowFromIcon, OpenSettings, windowRest
<1>7. CASE UNCHANGED windowVars
  BY <1>1, <1>7 DEF windowVars
<1>8. QED
  BY <1>2, <1>3, <1>4, <1>5, <1>6, <1>7 DEF WindowNext

\* Collapsing puts the window where the user left the light, or has dragged
\* it, whatever views came in between.
THEOREM CollapseIsExact == WindowSpec => CollapseRestores
<1> DEFINE Back ==
      asked # <<>> /\ Head(asked) = "mini" /\ asked' = Tail(asked)
      => pos' = MiniPlace(IF dragged /\ pos # applied_position
                          THEN pos ELSE origin)
<1>1. WindowInit => Placed
  BY DEF WindowInit, Placed
<1>2. WindowTyped /\ Placed /\ [WindowNext]_windowVars => [Back]_windowVars
  <2> SUFFICES ASSUME WindowTyped, Placed, [WindowNext]_windowVars,
                      asked # <<>>, Head(asked) = "mini", asked' = Tail(asked)
               PROVE  pos' = MiniPlace(IF dragged /\ pos # applied_position
                                       THEN pos ELSE origin)
    OBVIOUS
  <2>1. asked \in Seq(Views) /\ Len(asked') < Len(asked)
    BY HeadTailProperties, LenProperties DEF WindowTyped, WindowTypeOK
  <2>2. \A next : ~SetView(next)
    <3>1. ASSUME NEW next, SetView(next)
          PROVE  FALSE
      <4>1. Len(Append(asked, next)) = Len(asked) + 1
        BY <2>1
      <4>2. QED
        BY <2>1, <3>1, <4>1 DEF SetView
    <3>2. QED
      BY <3>1
  <2>3. asked' # asked
    BY <2>1
  <2>4. ResizeWindow
    BY <2>2, <2>3
       DEF WindowNext, ClickView, ConfigChanged, HandleEvent, Drag, Settle,
           TogglePin, ClickOutside, FocusLost, WindowHide, WindowMinimize,
           ToggleWindow, ToggleWindowFromIcon, SecondInstance, OpenSettings,
           windowRest, windowVars
  <2>5. ResizeToMini
    BY <2>4 DEF ResizeWindow
  <2>6. QED
    BY <2>5, CollapsedPlace
<1>3. QED
  BY <1>1, <1>2, PlacedStep, WindowTypedAlways, PTL
     DEF WindowSpec, CollapseRestores

-----------------------------------------------------------------------------
(***************************************************************************)
(* The devices: what a step does to the requests, field by field.          *)
(***************************************************************************)
RequestType ==
  [pc : {"idle", "add", "save", "write"}, op : {"none", "pair", "revoke", "touch"},
   id : DeviceIds \cup {Unpaired}, store : 1 .. MaxStarts, copy : Registry,
   late : {"no", "maybe", "yes"}]

\* The types, and what is given out: an id in use, in whichever list, was
\* drawn; no request is on a store whose server has not answered yet.
Drawn ==
  /\ drawn \subseteq DeviceIds
  /\ \A r \in Requests : request[r].store <= live
  /\ \A r \in Requests : request[r].pc # "idle" => request[r].id \in drawn
  /\ \A r \in Requests : request[r].pc # "write" => request[r].late = "no"
  /\ \A d \in DeviceIds \ drawn :
       /\ devices_json[d] = Unpaired
       /\ \A s \in 1 .. MaxStarts : stores[s][d] = Unpaired
       /\ \A r \in Requests : request[r].copy[d] = Unpaired

DevicesTyped == DevicesTypeOK /\ Drawn

\* Request r does `op' for device d and has come to pc; the others wait.
Begins(r, pc0, op0, d) ==
  /\ request[r].pc = "idle"
  /\ request' \in [Requests -> RequestType]
  /\ request'[r].pc = pc0 /\ request'[r].op = op0 /\ request'[r].id = d
  /\ request'[r].store = live
  /\ request'[r].copy = NoDevices /\ request'[r].late = "no"
  /\ \A q \in Requests \ {r} : request'[q] = request[q]

\* A store has one entry changed.
Enters(s, d, entry) ==
  /\ stores' \in [1 .. MaxStarts -> Registry]
  /\ stores'[s][d] = entry
  /\ \A e \in DeviceIds \ {d} : stores'[s][e] = stores[s][e]
  /\ \A u \in (1 .. MaxStarts) \ {s} : stores'[u] = stores[u]

\* Nobody knows more devices than there are, nor before time began.
LEMMA RegistryTyped ==
  /\ NoDevices \in Registry
  /\ \A d \in DeviceIds : NoDevices[d] = Unpaired
  /\ 0 \in 0 .. MaxClock
  /\ 1 \in 1 .. MaxStarts
  /\ \A n \in 0 .. MaxClock : n # Unpaired
BY DevicesAssumption DEF NoDevices, Registry

\* Setting a request sets its fields.
LEMMA BeginsSet ==
  ASSUME DevicesTyped, NEW r \in Requests, request[r].pc = "idle",
         NEW pc0 \in {"idle", "add", "save", "write"},
         NEW op0 \in {"none", "pair", "revoke", "touch"}, NEW d \in DeviceIds,
         SetRequest(r, [Waiting EXCEPT !.pc = pc0, !.op = op0, !.id = d,
                                       !.store = live])
  PROVE  Begins(r, pc0, op0, d)
<1> DEFINE rec == [Waiting EXCEPT !.pc = pc0, !.op = op0, !.id = d, !.store = live]
<1>1. live \in 1 .. MaxStarts /\ request \in [Requests -> RequestType]
  BY DevicesAssumption DEF DevicesTyped, DevicesTypeOK, RequestType
<1>2. /\ rec.pc = pc0 /\ rec.op = op0 /\ rec.id = d /\ rec.store = live
      /\ rec.copy = NoDevices /\ rec.late = "no"
  BY DEF Waiting
<1>3. rec \in RequestType
  BY <1>1, RegistryTyped DEF RequestType, Waiting
<1> HIDE DEF rec
<1>4. request' = [request EXCEPT ![r] = rec]
  BY DEF SetRequest, rec
<1>5. QED
  BY <1>1, <1>2, <1>3, <1>4 DEF Begins

\* Setting an entry of a store sets it.
LEMMA EntersSet ==
  ASSUME DevicesTyped, NEW s \in 1 .. MaxStarts, NEW d \in DeviceIds,
         NEW entry \in 0 .. MaxClock \cup {Unpaired},
         stores' = [stores EXCEPT ![s][d] = entry]
  PROVE  Enters(s, d, entry)
BY DEF DevicesTyped, DevicesTypeOK, Registry, Enters

\* Pairing draws an id nobody has had and is to add it.
LEMMA PairDoes ==
  ASSUME DevicesTyped, NEW r \in Requests, Pair(r)
  PROVE  \E d \in DeviceIds \ drawn :
           /\ drawn' = drawn \cup {d}
           /\ Begins(r, "add", "pair", d)
<1>1. Fresh \subseteq DeviceIds \ drawn
  BY DEF Fresh
<1>2. PICK d \in Fresh :
        /\ drawn' = drawn \cup {d}
        /\ SetRequest(r, [Waiting EXCEPT !.pc = "add", !.op = "pair", !.id = d,
                                         !.store = live])
  BY DEF Pair
<1>3. Begins(r, "add", "pair", d)
  BY <1>1, <1>2, BeginsSet DEF Pair
<1>4. QED
  BY <1>1, <1>2, <1>3

\* Revoking removes the device from the live registry and is to save that.
LEMMA RevokeDoes ==
  ASSUME DevicesTyped, NEW r \in Requests, Revoke(r)
  PROVE  \E d \in Known(live) :
           /\ Enters(live, d, Unpaired)
           /\ told' = told \ {d}
           /\ Begins(r, "save", "revoke", d)
<1>1. live \in 1 .. MaxStarts /\ Known(live) \subseteq DeviceIds
  BY DevicesAssumption DEF DevicesTyped, DevicesTypeOK, Known
<1>2. PICK d \in Known(live) :
        /\ stores' = [stores EXCEPT ![live][d] = Unpaired]
        /\ told' = told \ {d}
        /\ SetRequest(r, [Waiting EXCEPT !.pc = "save", !.op = "revoke",
                                         !.id = d, !.store = live])
  BY DEF Revoke
<1>3. Begins(r, "save", "revoke", d)
  BY <1>1, <1>2, BeginsSet DEF Revoke
<1>4. Enters(live, d, Unpaired)
  BY <1>1, <1>2, EntersSet
<1>5. QED
  BY <1>2, <1>3, <1>4

\* A device that authenticates is stamped with the time, and that is to be saved.
LEMMA TouchDoes ==
  ASSUME DevicesTyped, NEW r \in Requests, Touch(r)
  PROVE  \E d \in told :
           /\ d \in Known(live)
           /\ Enters(live, d, clock)
           /\ Begins(r, "save", "touch", d)
<1>1. live \in 1 .. MaxStarts /\ Known(live) \subseteq DeviceIds
      /\ clock \in 0 .. MaxClock
  BY DevicesAssumption DEF DevicesTyped, DevicesTypeOK, Known
<1>2. PICK d \in told :
        /\ d \in Known(live)
        /\ stores' = [stores EXCEPT ![live][d] = clock]
        /\ SetRequest(r, [Waiting EXCEPT !.pc = "save", !.op = "touch",
                                         !.id = d, !.store = live])
  BY DEF Touch, Authenticated
<1>3. Begins(r, "save", "touch", d)
  BY <1>1, <1>2, BeginsSet DEF Touch
<1>4. Enters(live, d, clock)
  BY <1>1, <1>2, EntersSet
<1>5. QED
  BY <1>2, <1>3, <1>4

\* A request keeps what it is about.
Keeps(q) ==
  /\ request'[q].op = request[q].op
  /\ request'[q].id = request[q].id
  /\ request'[q].store = request[q].store

\* Adding enters the device in the registry its request began with.
LEMMA AddDoes ==
  ASSUME DevicesTyped, NEW r \in Requests, Add(r)
  PROVE  /\ request[r].pc = "add" /\ request[r].id \in DeviceIds
         /\ Enters(request[r].store, request[r].id, clock)
         /\ request' \in [Requests -> RequestType]
         /\ Keeps(r) /\ request'[r].pc = "save"
         /\ request'[r].copy = request[r].copy
         /\ request'[r].late = "no"
         /\ \A q \in Requests \ {r} : request'[q] = request[q]
<1>1. /\ request \in [Requests -> RequestType] /\ clock \in 0 .. MaxClock
      /\ request[r].store \in 1 .. MaxStarts
  BY DEF DevicesTyped, DevicesTypeOK, RequestType
<1>2. request[r].pc = "add" /\ request[r].id \in drawn /\ request[r].late = "no"
  BY DEF Add, DevicesTyped, Drawn
<1>3. request[r].id \in DeviceIds
  BY <1>2 DEF DevicesTyped, Drawn
<1>4. Enters(request[r].store, request[r].id, clock)
  BY <1>1, <1>3, EntersSet DEF Add
<1>5. request' = [request EXCEPT ![r] = [request[r] EXCEPT !.pc = "save"]]
  BY DEF Add, SetRequest
<1>6. QED
  BY <1>1, <1>2, <1>3, <1>4, <1>5 DEF Keeps, RequestType

\* Saving copies the registry as it is by then.
LEMMA SaveDoes ==
  ASSUME DevicesTyped, NEW r \in Requests, SaveCopy(r)
  PROVE  /\ request[r].pc = "save"
         /\ request' \in [Requests -> RequestType]
         /\ Keeps(r) /\ request'[r].pc = "write"
         /\ request'[r].copy = stores[request[r].store]
         /\ request'[r].late = "no"
         /\ \A q \in Requests \ {r} :
              /\ Keeps(q) /\ request'[q].pc = request[q].pc
              /\ request'[q].copy = request[q].copy
              /\ request'[q].late = IF /\ request[q].pc = "write"
                                       /\ request[q].late = "no"
                                    THEN "maybe" ELSE request[q].late
<1> DEFINE saved == [request[r] EXCEPT !.pc = "write",
                                       !.copy = stores[request[r].store]]
           late(q) == [request[q] EXCEPT !.late = "maybe"]
<1>1. /\ request \in [Requests -> RequestType]
      /\ stores[request[r].store] \in Registry
      /\ request[r].pc = "save" /\ request[r].late = "no"
  BY DEF DevicesTyped, Drawn, DevicesTypeOK, RequestType, SaveCopy
<1>2. /\ saved \in RequestType
      /\ saved.pc = "write" /\ saved.copy = stores[request[r].store]
      /\ saved.op = request[r].op /\ saved.id = request[r].id
      /\ saved.store = request[r].store /\ saved.late = request[r].late
  BY <1>1 DEF RequestType
<1>3. \A q \in Requests :
        /\ late(q) \in RequestType
        /\ late(q).pc = request[q].pc /\ late(q).copy = request[q].copy
        /\ late(q).op = request[q].op /\ late(q).id = request[q].id
        /\ late(q).store = request[q].store /\ late(q).late = "maybe"
  BY <1>1 DEF RequestType
<1>4. request' = [q \in Requests |->
        IF q = r THEN saved
        ELSE IF request[q].pc = "write" /\ request[q].late = "no" THEN late(q)
             ELSE request[q]]
  BY DEF SaveCopy
<1> HIDE DEF saved, late
<1>5. QED
  BY <1>1, <1>2, <1>3, <1>4 DEF Keeps

\* Request r is answered; the others may have been overtaken.
Answers(r) ==
  /\ request[r].pc = "write"
  /\ request' \in [Requests -> RequestType]
  /\ request'[r] = Waiting
  /\ \A q \in Requests \ {r} :
       /\ Keeps(q) /\ request'[q].pc = request[q].pc
       /\ request'[q].copy = request[q].copy
       /\ request'[q].late = IF request[q].late = "maybe" THEN "yes"
                             ELSE request[q].late

\* Nothing is under way for a request that waits.
LEMMA IdleRequest ==
  /\ Waiting \in RequestType
  /\ Waiting.pc = "idle" /\ Waiting.op = "none" /\ Waiting.late = "no"
  /\ Waiting.store = 1 /\ Waiting.copy = NoDevices
BY RegistryTyped DEF Waiting, RequestType

\* Writing the copy answers the request and makes the others' copies late.
LEMMA WriteDoes ==
  ASSUME DevicesTyped, NEW r \in Requests, WriteCopy(r)
  PROVE  Answers(r)
<1> DEFINE late(q) == [request[q] EXCEPT !.late = "yes"]
<1>1. request \in [Requests -> RequestType] /\ request[r].pc = "write"
  BY DEF DevicesTyped, DevicesTypeOK, RequestType, WriteCopy
<1>2. \A q \in Requests :
        /\ late(q) \in RequestType
        /\ late(q).pc = request[q].pc /\ late(q).copy = request[q].copy
        /\ late(q).op = request[q].op /\ late(q).id = request[q].id
        /\ late(q).store = request[q].store /\ late(q).late = "yes"
  BY <1>1 DEF RequestType
<1>3. request' = [q \in Requests |->
        IF q = r THEN Waiting
        ELSE IF request[q].late = "maybe" THEN late(q) ELSE request[q]]
  BY DEF WriteCopy
<1> HIDE DEF late
<1>4. QED
  BY <1>1, <1>2, <1>3, IdleRequest DEF Answers, Keeps

\* A store that is loaded holds the file; the others are as they were.
Loads ==
  /\ loaded + 1 \in 1 .. MaxStarts
  /\ loaded' = loaded + 1
  /\ stores' \in [1 .. MaxStarts -> Registry]
  /\ stores'[loaded + 1] = devices_json
  /\ \A s \in (1 .. MaxStarts) \ {loaded + 1} : stores'[s] = stores[s]

\* A server that starts has the registry of the file.
LEMMA LoadDoes ==
  ASSUME DevicesTyped, LoadStore
  PROVE  Loads
BY DevicesAssumption DEF DevicesTyped, DevicesTypeOK, LoadStore, Loads

\* What no request changes.
serverOf == <<loaded, live, clock, code_valid>>

\* Every step keeps the types, and ids that were not drawn unknown.
LEMMA DevicesTypedStep ==
  DevicesTyped /\ [DevicesNext]_deviceVars => DevicesTyped'
<1> SUFFICES ASSUME DevicesTyped, [DevicesNext]_deviceVars
             PROVE  DevicesTyped'
  OBVIOUS
<1>0. /\ devices_json \in Registry /\ stores \in [1 .. MaxStarts -> Registry]
      /\ live \in 1 .. loaded /\ loaded \in 1 .. MaxStarts
      /\ live \in 1 .. MaxStarts
      /\ request \in [Requests -> RequestType]
      /\ code_valid \in BOOLEAN
      /\ clock \in 0 .. MaxClock
      /\ told \subseteq drawn /\ forgotten \subseteq drawn
      /\ MaxStarts \in Nat /\ MaxClock \in Nat
      /\ Drawn
  BY DevicesAssumption DEF DevicesTyped, DevicesTypeOK, RequestType
<1>b. drawn \subseteq DeviceIds
  BY <1>0 DEF Drawn
<1>a. ASSUME devices_json' \in Registry,
             stores' \in [1 .. MaxStarts -> Registry],
             live' \in 1 .. loaded', loaded' \in 1 .. MaxStarts,
             request' \in [Requests -> RequestType],
             code_valid' \in BOOLEAN, clock' \in 0 .. MaxClock,
             told' \subseteq drawn', forgotten' \subseteq drawn',
             Drawn'
      PROVE  DevicesTyped'
  BY <1>a DEF DevicesTyped, DevicesTypeOK, RequestType
<1>1. ASSUME NEW r \in Requests, Pair(r)
      PROVE  DevicesTyped'
  <2>1. PICK d \in DeviceIds \ drawn :
          drawn' = drawn \cup {d} /\ Begins(r, "add", "pair", d)
    BY <1>1, PairDoes
  <2>2. UNCHANGED <<devices_json, stores, serverOf, told, forgotten>>
    BY <1>1 DEF Pair, serverOf
  <2>3. Drawn'
    <3>1. /\ UNCHANGED <<devices_json, stores, live>>
          /\ DeviceIds \ drawn' \subseteq DeviceIds \ drawn
      BY <2>1, <2>2 DEF serverOf
    <3>2. /\ \A q \in Requests : request'[q].store <= live
          /\ \A q \in Requests : request'[q].pc # "idle" => request'[q].id \in drawn'
          /\ \A q \in Requests : request'[q].pc # "write" => request'[q].late = "no"
      BY <1>0, <2>1 DEF Drawn, Begins
    <3>3. \A e \in DeviceIds \ drawn : \A q \in Requests :
             request'[q].copy[e] = Unpaired
      BY <1>0, <2>1, RegistryTyped DEF Drawn, Begins
    <3>4. QED
      BY <1>0, <1>b, <2>1, <3>1, <3>2, <3>3 DEF Drawn
  <2>4. request' \in [Requests -> RequestType] /\ code_valid' \in BOOLEAN
    BY <1>0, <2>1, <2>2, Zenon DEF Begins, serverOf
  <2>5. told' \subseteq drawn' /\ forgotten' \subseteq drawn'
    BY <1>0, <2>1, <2>2
  <2>6. QED
    BY <1>0, <1>a, <2>1, <2>2, <2>3, <2>4, <2>5 DEF Begins, serverOf
<1>2. ASSUME NEW r \in Requests, Add(r)
      PROVE  DevicesTyped'
  <2>1. UNCHANGED <<devices_json, serverOf, drawn, told, forgotten>>
    BY <1>2 DEF Add, serverOf
  <2>2. request[r].id \in drawn /\ request[r].store \in 1 .. MaxStarts
    BY <1>0, <1>2 DEF Drawn, Add, RequestType
  <2>3. Drawn'
    <3>1. \A d \in DeviceIds \ drawn : \A s \in 1 .. MaxStarts :
             stores'[s][d] = Unpaired
      BY <1>0, <1>2, <2>2, AddDoes DEF Drawn, Enters
    <3>2. QED
      BY <1>0, <1>2, <2>1, <2>2, <3>1, AddDoes DEF Drawn, Keeps, serverOf
  <2>4. QED
    BY <1>0, <1>2, <1>a, <2>1, <2>3, AddDoes DEF Enters, serverOf
<1>3. ASSUME NEW r \in Requests, Revoke(r)
      PROVE  DevicesTyped'
  <2>1. PICK d \in Known(live) :
          /\ Enters(live, d, Unpaired) /\ told' = told \ {d}
          /\ Begins(r, "save", "revoke", d)
    BY <1>3, RevokeDoes
  <2>2. UNCHANGED <<devices_json, serverOf, drawn, forgotten>>
    BY <1>3 DEF Revoke, serverOf
  <2>3. d \in drawn
    BY <1>0, <2>1 DEF Drawn, Known
  <2>4. Drawn'
    <3>1. \A e \in DeviceIds \ drawn : \A s \in 1 .. MaxStarts :
             stores'[s][e] = Unpaired
      BY <1>0, <2>1, <2>3 DEF Drawn, Enters
    <3>2. UNCHANGED <<devices_json, drawn, live>>
      BY <2>2 DEF serverOf
    <3>3. /\ \A q \in Requests : request'[q].store <= live
          /\ \A q \in Requests : request'[q].pc # "idle" => request'[q].id \in drawn
          /\ \A q \in Requests : request'[q].pc # "write" => request'[q].late = "no"
      BY <1>0, <2>1, <2>3 DEF Drawn, Begins
    <3>4. \A e \in DeviceIds \ drawn : \A q \in Requests :
             request'[q].copy[e] = Unpaired
      BY <1>0, <2>1, RegistryTyped DEF Drawn, Begins
    <3>5. QED
      BY <1>0, <1>b, <3>1, <3>2, <3>3, <3>4 DEF Drawn
  <2>5. QED
    BY <1>0, <1>a, <2>1, <2>2, <2>4 DEF Enters, Begins, serverOf
<1>4. ASSUME NEW r \in Requests, Touch(r)
      PROVE  DevicesTyped'
  <2>1. PICK d \in told :
          /\ d \in Known(live) /\ Enters(live, d, clock)
          /\ Begins(r, "save", "touch", d)
    BY <1>4, TouchDoes
  <2>2. UNCHANGED <<devices_json, serverOf, drawn, told, forgotten>>
    BY <1>4 DEF Touch, serverOf
  <2>3. d \in drawn
    BY <1>0, <2>1 DEF Drawn, Known
  <2>4. Drawn'
    <3>1. \A e \in DeviceIds \ drawn : \A s \in 1 .. MaxStarts :
             stores'[s][e] = Unpaired
      BY <1>0, <2>1, <2>3 DEF Drawn, Enters
    <3>2. QED
      BY <1>0, <2>1, <2>2, <2>3, <3>1, RegistryTyped DEF Drawn, Begins, serverOf
  <2>5. QED
    BY <1>0, <1>a, <2>1, <2>2, <2>4 DEF Enters, Begins, serverOf
<1>5. ASSUME NEW r \in Requests, SaveCopy(r)
      PROVE  DevicesTyped'
  <2>1. UNCHANGED <<devices_json, stores, serverOf, drawn, told, forgotten>>
    BY <1>5 DEF SaveCopy, serverOf
  <2>2. request[r].store \in 1 .. MaxStarts
    BY <1>0 DEF RequestType
  <2>3. Drawn'
    BY <1>0, <1>5, <2>1, <2>2, SaveDoes DEF Drawn, Keeps, serverOf
  <2>4. QED
    BY <1>0, <1>5, <1>a, <2>1, <2>3, SaveDoes DEF serverOf
<1>6. ASSUME NEW r \in Requests, WriteCopy(r)
      PROVE  DevicesTyped'
  <2>1. UNCHANGED <<stores, serverOf, drawn>> /\ Answers(r)
    BY <1>6, WriteDoes DEF WriteCopy, serverOf
  <2>2. /\ devices_json' \in {devices_json, request[r].copy}
        /\ told' \subseteq told \cup {request[r].id}
        /\ forgotten' \subseteq forgotten \cup {request[r].id}
    BY <1>6 DEF WriteCopy
  <2>3. request[r].id \in drawn /\ request[r].copy \in Registry
    BY <1>0, <2>1 DEF Drawn, Answers, RequestType
  <2>4. Drawn'
    <3>1. /\ request'[r].pc = "idle" /\ request'[r].store = 1
          /\ request'[r].copy = NoDevices /\ request'[r].late = "no"
      BY <2>1, IdleRequest DEF Answers
    <3>2. \A q \in Requests \ {r} : request'[q].pc # "write"
                                      => request'[q].late = "no"
      BY <1>0, <2>1 DEF Drawn, Answers
    <3>3. QED
      BY <1>0, <2>1, <2>2, <3>1, <3>2, RegistryTyped
         DEF Drawn, Answers, Keeps, serverOf
  <2>5. QED
    BY <1>0, <1>a, <2>1, <2>2, <2>3, <2>4 DEF Answers, serverOf
<1>7. CASE Regenerate \/ TimePasses
  <2>1. /\ UNCHANGED <<devices_json, stores, loaded, live, request, drawn, told,
                       forgotten>>
        /\ code_valid' \in BOOLEAN
    BY <1>0, <1>7, Zenon DEF Regenerate, TimePasses
  <2>2. clock' = clock \/ (clock < MaxClock /\ clock' = clock + 1)
    BY <1>7, Zenon DEF Regenerate, TimePasses
  <2>3. clock' \in 0 .. MaxClock
    BY <1>0, <2>2
  <2>4. QED
    BY <1>0, <1>a, <2>1, <2>3 DEF Drawn
<1>8. CASE StartAnother \/ StopOld
  <2>1. /\ UNCHANGED <<devices_json, request, clock, drawn, told, forgotten>>
        /\ code_valid' \in BOOLEAN
    BY <1>0, <1>8 DEF StartAnother, StopOld
  <2>2. /\ Loads \/ UNCHANGED <<stores, loaded>>
        /\ live' \in 1 .. loaded' /\ live <= live'
    BY <1>0, <1>8, LoadDoes DEF StartAnother, StopOld, Loads
  <2>3. Drawn'
    <3>1. \A e \in DeviceIds \ drawn : \A s \in 1 .. MaxStarts :
             stores'[s][e] = Unpaired
      BY <1>0, <2>2 DEF Drawn, Loads
    <3>2. \A r \in Requests : request[r].store <= live'
      BY <1>0, <2>2 DEF Drawn, RequestType
    <3>3. QED
      BY <1>0, <2>1, <3>1, <3>2 DEF Drawn
  <2>4. QED
    BY <1>0, <1>a, <2>1, <2>2, <2>3 DEF Loads
<1>9. CASE RestartHub
  <2>1. Loads /\ live' = loaded + 1
    BY <1>9, LoadDoes DEF RestartHub
  <2>2. UNCHANGED <<devices_json, clock, drawn, told, forgotten>>
        /\ code_valid' = TRUE /\ request' = [r \in Requests |-> Waiting]
    BY <1>9 DEF RestartHub
  <2>3. \A r \in Requests : request'[r] = Waiting
    BY <2>2
  <2>4. Drawn'
    BY <1>0, <2>1, <2>2, <2>3, RegistryTyped, IdleRequest DEF Drawn, Loads
  <2>5. QED
    BY <1>0, <1>a, <2>1, <2>2, <2>4, IdleRequest DEF Loads
<1>10. CASE UNCHANGED deviceVars
  BY <1>0, <1>10, <1>a DEF deviceVars, Drawn
<1>11. QED
  BY <1>1, <1>2, <1>3, <1>4, <1>5, <1>6, <1>7, <1>8, <1>9, <1>10 DEF DevicesNext

\* Types and drawn ids are an invariant of the devices.
LEMMA DevicesTypedAlways == DevicesSpec => []DevicesTyped
<1>1. DevicesInit => DevicesTyped
  <2> SUFFICES ASSUME DevicesInit
               PROVE  DevicesTyped
    OBVIOUS
  <2>1. \A r \in Requests : request[r] = Waiting
    BY DEF DevicesInit
  <2>2. Drawn
    BY <2>1, RegistryTyped, IdleRequest, DevicesAssumption DEF DevicesInit, Drawn
  <2>3. DevicesTypeOK
    BY RegistryTyped, IdleRequest, DevicesAssumption
       DEF DevicesInit, DevicesTypeOK, RequestType
  <2>4. QED
    BY <2>2, <2>3 DEF DevicesTyped
<1>2. QED
  BY <1>1, DevicesTypedStep, PTL DEF DevicesSpec

\* Every state of the paired devices is well typed.
THEOREM DevicesTypeCorrect == DevicesSpec => []DevicesTypeOK
<1>1. DevicesTyped => DevicesTypeOK
  BY DEF DevicesTyped
<1>2. QED
  BY <1>1, DevicesTypedAlways, PTL
-----------------------------------------------------------------------------
(***************************************************************************)
(* The devices: the file keeps up, and what was answered lasts.            *)
(***************************************************************************)
Underway(r) == request[r].pc \in {"save", "write"}
Writes(r) == request[r].pc = "write"
Unrevoked(s, d) == stores[s][d] # Unpaired

\* An id that is not added yet is nowhere, and nobody else's.
AddsNew(r) ==
  /\ request[r].op = "pair"
  /\ request[r].id \in DeviceIds
  /\ devices_json[request[r].id] = Unpaired
  /\ \A s \in 1 .. MaxStarts : stores[s][request[r].id] = Unpaired
  /\ \A q \in Requests : request[q].copy[request[r].id] = Unpaired
  /\ request[r].id \notin told \cup forgotten
  /\ \A q \in Requests \ {r} : Underway(q) => request[q].id # request[r].id

\* An id is paired once, and revoked once in a store.
AddsAlone == \A r \in Requests : request[r].pc = "add" => AddsNew(r)
PairedOnce ==
  \A r, q \in Requests :
    /\ request[r].op = "pair" /\ request[q].op = "pair"
    /\ request[r].pc # "idle" /\ request[q].pc # "idle"
    /\ request[r].id = request[q].id
    => r = q
RevokedOnce ==
  \A r, q \in Requests :
    /\ request[r].op = "revoke" /\ request[q].op = "revoke"
    /\ Underway(r) /\ Underway(q)
    /\ request[r].id = request[q].id /\ request[r].store = request[q].store
    => r = q

\* What a request did shows in its store, and in its copy, until it is undone.
PairShows ==
  \A r \in Requests : request[r].op = "pair" /\ Writes(r) =>
    \/ request[r].copy[request[r].id] # Unpaired
    \/ stores[request[r].store][request[r].id] = Unpaired
RevokeShows ==
  \A r \in Requests : request[r].op = "revoke" /\ Underway(r) =>
    /\ stores[request[r].store][request[r].id] = Unpaired
    /\ Writes(r) => request[r].copy[request[r].id] = Unpaired

Owned == AddsAlone /\ PairedOnce /\ RevokedOnce /\ PairShows /\ RevokeShows

\* What a copy lacks of its store another request will write: any one if this
\* copy may be overtaken, and if it is the newest one that has not copied yet,
\* which pairs what the copy lacks and revokes what it still has.
WillBeWritten(r) ==
  \/ request[r].copy = stores[request[r].store]
  \/ \E q \in Requests \ {r} : Underway(q) /\ request[q].store = request[r].store
WillBeCopied(r) ==
  \/ request[r].copy = stores[request[r].store]
  \/ \E q \in Requests : /\ request[q].pc = "save"
                         /\ request[q].store = request[r].store
PairsComing(r) ==
  \A d \in DeviceIds :
    stores[request[r].store][d] # Unpaired /\ request[r].copy[d] = Unpaired
    => \E q \in Requests : /\ request[q].pc = "save"
                           /\ request[q].op = "pair" /\ request[q].id = d
RevokesComing(r) ==
  \A d \in DeviceIds :
    stores[request[r].store][d] = Unpaired /\ request[r].copy[d] # Unpaired
    => \E q \in Requests : /\ request[q].pc = "save"
                           /\ request[q].op = "revoke" /\ request[q].id = d
                           /\ request[q].store = request[r].store
Followed ==
  \A r \in Requests : Writes(r) =>
    /\ request[r].late # "yes" => WillBeWritten(r)
    /\ request[r].late = "no" =>
         WillBeCopied(r) /\ PairsComing(r) /\ RevokesComing(r)

\* The file is what store s holds, or a request will write it.
KeepsUp(s) ==
  \/ devices_json = stores[s]
  \/ \E r \in Requests : Underway(r) /\ request[r].store = s

\* A copy that may still become the file.
Counts(r) == Writes(r) /\ request[r].late # "yes" /\ request[r].store = loaded

\* What was told is in every list that counts, and what was forgotten in none.
ToldLast ==
  \A d \in told :
    /\ devices_json[d] # Unpaired
    /\ stores[loaded][d] # Unpaired /\ stores[live][d] # Unpaired
    /\ \A r \in Requests : Counts(r) => request[r].copy[d] # Unpaired
ForgottenLast ==
  \A d \in forgotten :
    /\ devices_json[d] = Unpaired
    /\ stores[loaded][d] = Unpaired /\ stores[live][d] = Unpaired
    /\ \A r \in Requests : Counts(r) => request[r].copy[d] = Unpaired

\* So it is while no older copy was written and no write failed.
Filed ==
  ~crossed /\ ~unwritten =>
    KeepsUp(live) /\ KeepsUp(loaded) /\ ToldLast /\ ForgottenLast

\* An entry changes in one store, for one device.
LEMMA ElsewhereKept ==
  ASSUME DevicesTyped, NEW s \in 1 .. MaxStarts, NEW d \in DeviceIds, NEW entry,
         Enters(s, d, entry)
  PROVE  /\ stores'[s][d] = entry
         /\ \A u \in 1 .. MaxStarts, e \in DeviceIds :
              u # s \/ e # d => stores'[u][e] = stores[u][e]
BY DEF Enters

\* Who pairs and revokes what is kept by every step.
LEMMA OwnedStep ==
  DevicesTyped /\ Owned /\ [DevicesNext]_deviceVars => Owned'
<1> SUFFICES ASSUME DevicesTyped, Owned, [DevicesNext]_deviceVars
             PROVE  Owned'
  OBVIOUS
<1>0. /\ devices_json \in Registry /\ stores \in [1 .. MaxStarts -> Registry]
      /\ live \in 1 .. loaded /\ loaded \in 1 .. MaxStarts
      /\ live \in 1 .. MaxStarts /\ MaxStarts \in Nat
      /\ request \in [Requests -> RequestType]
      /\ \A r \in Requests : /\ request[r].store \in 1 .. MaxStarts
                             /\ request[r].store <= live
                             /\ request[r].id \in DeviceIds \cup {Unpaired}
      /\ told \subseteq drawn /\ forgotten \subseteq drawn
      /\ clock # Unpaired
      /\ \A r \in Requests : request[r].pc # "idle" => request[r].id \in DeviceIds
      /\ Drawn
  BY DevicesAssumption, RegistryTyped
     DEF DevicesTyped, DevicesTypeOK, RequestType, Drawn
<1>1. ASSUME NEW r \in Requests, Pair(r)
      PROVE  Owned'
  <2>1. PICK d \in DeviceIds \ drawn :
          drawn' = drawn \cup {d} /\ Begins(r, "add", "pair", d)
    BY <1>1, PairDoes
  <2>2. UNCHANGED <<devices_json, stores, told, forgotten>>
    BY <1>1 DEF Pair
  <2>3. AddsNew(r)'
    BY <1>0, <2>1, <2>2, RegistryTyped DEF AddsNew, Begins, Drawn, Underway
  <2>4. \A q \in Requests \ {r} : request'[q].pc = "add" => AddsNew(q)'
    BY <1>0, <2>1, <2>2, RegistryTyped, SMTT(30)
       DEF Owned, AddsAlone, AddsNew, Begins, Drawn, Underway
  <2>5. AddsAlone'
    BY <1>0, <2>1, <2>2, <2>3, <2>4
       DEF Owned, AddsAlone, Begins, Drawn, Underway, Writes
  <2>6. PairedOnce'
    BY <1>0, <2>1, <2>2, <2>3, <2>4
       DEF Owned, PairedOnce, Begins, Drawn, Underway, Writes
  <2>7. RevokedOnce'
    BY <1>0, <2>1, <2>2, <2>3, <2>4
       DEF Owned, RevokedOnce, Begins, Drawn, Underway, Writes
  <2>8. PairShows'
    BY <1>0, <2>1, <2>2, <2>3, <2>4
       DEF Owned, PairShows, Begins, Drawn, Underway, Writes
  <2>9. RevokeShows'
    BY <1>0, <2>1, <2>2, <2>3, <2>4
       DEF Owned, RevokeShows, Begins, Drawn, Underway, Writes
  <2>10. QED
    BY <2>5, <2>6, <2>7, <2>8, <2>9 DEF Owned
<1>2. ASSUME NEW r \in Requests, Add(r)
      PROVE  Owned'
  <2>1. UNCHANGED <<devices_json, told, forgotten>> /\ AddsNew(r)
    BY <1>2 DEF Add, Owned, AddsAlone
  <2>2. \A q \in Requests \ {r} : request'[q].pc = "add" =>
          request[q].id # request[r].id /\ AddsNew(q)
    BY <1>2, AddDoes DEF Owned, AddsAlone, AddsNew, PairedOnce
  <2>5. /\ stores'[request[r].store][request[r].id] # Unpaired
        /\ \A s \in 1 .. MaxStarts, e \in DeviceIds :
             s # request[r].store \/ e # request[r].id
             => stores'[s][e] = stores[s][e]
    BY <1>0, <1>2, AddDoes, ElsewhereKept DEF Enters
  <2>3. \A q \in Requests \ {r} : request'[q].pc = "add" => AddsNew(q)'
    BY <1>0, <1>2, <2>1, <2>2, <2>5, AddDoes DEF AddsNew, Keeps, Underway
  <2>4. \A q \in Requests : Underway(q) => request[q].id # request[r].id
    BY <1>2, <2>1, AddDoes DEF AddsNew, Underway
  <2>6. AddsAlone'
    BY <1>0, <1>2, <2>1, <2>3, <2>4, <2>5, AddDoes
       DEF Owned, AddsAlone, Keeps, Underway, Writes, AddsNew
  <2>7. PairedOnce'
    BY <1>0, <1>2, <2>1, <2>3, <2>4, <2>5, AddDoes
       DEF Owned, PairedOnce, Keeps, Underway, Writes, AddsNew
  <2>8. RevokedOnce'
    BY <1>0, <1>2, <2>1, <2>3, <2>4, <2>5, AddDoes
       DEF Owned, RevokedOnce, Keeps, Underway, Writes, AddsNew
  <2>9. PairShows'
    BY <1>0, <1>2, <2>1, <2>3, <2>4, <2>5, AddDoes
       DEF Owned, PairShows, Keeps, Underway, Writes, AddsNew
  <2>10. RevokeShows'
    BY <1>0, <1>2, <2>1, <2>3, <2>4, <2>5, AddDoes
       DEF Owned, RevokeShows, Keeps, Underway, Writes, AddsNew
  <2>11. QED
    BY <2>6, <2>7, <2>8, <2>9, <2>10 DEF Owned
<1>3. ASSUME NEW r \in Requests, Revoke(r)
      PROVE  Owned'
  <2>1. PICK d \in Known(live) :
          /\ Enters(live, d, Unpaired) /\ told' = told \ {d}
          /\ Begins(r, "save", "revoke", d)
    BY <1>3, RevokeDoes
  <2>2. UNCHANGED <<devices_json, forgotten>>
    BY <1>3 DEF Revoke
  <2>3. d \in DeviceIds /\ stores[live][d] # Unpaired
    BY DEF Known
  <2>4. \A s \in 1 .. MaxStarts, e \in DeviceIds :
          s # live \/ e # d => stores'[s][e] = stores[s][e]
    BY <1>0, <2>1, <2>3, ElsewhereKept
  <2>5. ASSUME NEW q \in Requests, request'[q].pc = "add"
        PROVE  AddsNew(q)'
    <3>1. q # r /\ request'[q] = request[q]
      BY <2>1, <2>5 DEF Begins
    <3>2. AddsNew(q)
      BY <2>5, <3>1 DEF Owned, AddsAlone
    <3>3. request[q].id # d
      BY <1>0, <2>3, <3>2 DEF AddsNew
    <3>4. \A p \in Requests : request'[p].copy[request[q].id] = Unpaired
      BY <2>1, <3>2, RegistryTyped DEF AddsNew, Begins
    <3>5. \A p \in Requests \ {q} : Underway(p)' => request'[p].id # request[q].id
      BY <2>1, <3>2, <3>3 DEF AddsNew, Begins, Underway
    <3>6. QED
      BY <2>1, <2>2, <2>4, <3>1, <3>2, <3>3, <3>4, <3>5 DEF AddsNew
  <2>6. AddsAlone'
    BY <1>0, <2>1, <2>2, <2>3, <2>4, <2>5
       DEF AddsAlone
  <2>7. PairedOnce'
    BY <1>0, <2>1, <2>2, <2>3, <2>4, <2>5
       DEF Owned, PairedOnce, Begins, Underway, Writes, Enters
  <2>8. RevokedOnce'
    BY <1>0, <2>1, <2>3 DEF Owned, RevokedOnce, RevokeShows, Begins, Underway
  <2>9. PairShows'
    BY SMTT(30), <1>0, <2>1, <2>2, <2>3, <2>4, <2>5
       DEF Owned, PairShows, Begins, Underway, Writes, Enters
  <2>10. RevokeShows'
    BY <1>0, <2>1, <2>2, <2>3, <2>4, <2>5
       DEF Owned, RevokeShows, Begins, Underway, Writes, Enters
  <2>11. QED
    BY <2>6, <2>7, <2>8, <2>9, <2>10 DEF Owned
<1>4. ASSUME NEW r \in Requests, Touch(r)
      PROVE  Owned'
  <2>1. PICK d \in told :
          /\ d \in Known(live) /\ Enters(live, d, clock)
          /\ Begins(r, "save", "touch", d)
    BY <1>4, TouchDoes
  <2>2. UNCHANGED <<devices_json, told, forgotten>>
    BY <1>4 DEF Touch
  <2>3. d \in DeviceIds /\ stores[live][d] # Unpaired
    BY <2>1 DEF Known
  <2>4. \A s \in 1 .. MaxStarts, e \in DeviceIds :
          s # live \/ e # d => stores'[s][e] = stores[s][e]
    BY <1>0, <2>1, <2>3, ElsewhereKept
  <2>5. ASSUME NEW q \in Requests, request'[q].pc = "add"
        PROVE  AddsNew(q)'
    <3>1. q # r /\ request'[q] = request[q]
      BY <2>1, <2>5 DEF Begins
    <3>2. AddsNew(q)
      BY <2>5, <3>1 DEF Owned, AddsAlone
    <3>3. request[q].id # d
      BY <1>0, <2>3, <3>2 DEF AddsNew
    <3>4. \A p \in Requests : request'[p].copy[request[q].id] = Unpaired
      BY <2>1, <3>2, RegistryTyped DEF AddsNew, Begins
    <3>5. \A p \in Requests \ {q} : Underway(p)' => request'[p].id # request[q].id
      BY <2>1, <3>2, <3>3 DEF AddsNew, Begins, Underway
    <3>6. QED
      BY <2>1, <2>2, <2>4, <3>1, <3>2, <3>3, <3>4, <3>5 DEF AddsNew
  <2>6. AddsAlone'
    BY <1>0, <2>1, <2>2, <2>3, <2>4, <2>5
       DEF AddsAlone
  <2>7. PairedOnce'
    BY SMTT(30), <1>0, <2>1, <2>2, <2>3, <2>4, <2>5
       DEF Owned, PairedOnce, Begins, Underway, Writes, Enters
  <2>8. RevokedOnce'
    BY <1>0, <2>1, <2>3 DEF Owned, RevokedOnce, RevokeShows, Begins, Underway
  <2>9. PairShows'
    <3>1. /\ request'[r].op = "touch"
          /\ \A q \in Requests \ {r} : request'[q] = request[q]
      BY <2>1 DEF Begins
    <3>2. ASSUME NEW q \in Requests, request'[q].op = "pair", Writes(q)'
          PROVE  \/ request'[q].copy[request'[q].id] # Unpaired
                 \/ stores'[request'[q].store][request'[q].id] = Unpaired
      <4>1. q # r /\ request'[q] = request[q] /\ request[q].op = "pair" /\ Writes(q)
        BY <3>1, <3>2 DEF Writes
      <4>2. request[q].store \in 1 .. MaxStarts /\ request[q].id \in DeviceIds
        BY <1>0, <4>1 DEF Writes
      <4>3. \/ request[q].copy[request[q].id] # Unpaired
            \/ stores[request[q].store][request[q].id] = Unpaired
        BY <4>1 DEF Owned, PairShows
      <4>4. QED
        BY <2>3, <2>4, <4>1, <4>2, <4>3
    <3>3. QED
      BY <3>2 DEF PairShows
  <2>10. RevokeShows'
    BY <1>0, <2>1, <2>2, <2>3, <2>4, <2>5
       DEF Owned, RevokeShows, Begins, Underway, Writes, Enters
  <2>11. QED
    BY <2>6, <2>7, <2>8, <2>9, <2>10 DEF Owned
<1>5. ASSUME NEW r \in Requests, SaveCopy(r)
      PROVE  Owned'
  <2>1. UNCHANGED <<devices_json, stores, told, forgotten>>
    BY <1>5 DEF SaveCopy
  <2>2. \A q \in Requests : request'[q].pc = "add" => AddsNew(q)'
    <3>1. SUFFICES ASSUME NEW q \in Requests, request'[q].pc = "add"
                   PROVE  AddsNew(q)'
      OBVIOUS
    <3>2. q # r /\ AddsNew(q)
      BY <1>0, <1>5, <3>1, SaveDoes DEF Owned, AddsAlone
    <3>3. request'[q].op = request[q].op /\ request'[q].id = request[q].id
      BY <1>0, <1>5, <3>2, SaveDoes DEF Keeps
    <3>4. \A p \in Requests : request'[p].copy[request[q].id] = Unpaired
      BY <1>0, <1>5, <2>1, <3>2, SaveDoes DEF AddsNew
    <3>5. \A p \in Requests \ {q} : Underway(p)' => request'[p].id # request[q].id
      BY <1>0, <1>5, <3>2, SaveDoes DEF AddsNew, Keeps, Underway
    <3>6. QED
      BY <2>1, <3>2, <3>3, <3>4, <3>5 DEF AddsNew
  <2>3. AddsAlone'
    BY <1>0, <1>5, <2>1, <2>2, SaveDoes
       DEF Owned, AddsAlone, Keeps, Underway, Writes
  <2>4. PairedOnce'
    BY <1>0, <1>5, <2>1, <2>2, SaveDoes
       DEF Owned, PairedOnce, Keeps, Underway, Writes
  <2>5. RevokedOnce'
    BY <1>0, <1>5, <2>1, <2>2, SaveDoes
       DEF Owned, RevokedOnce, Keeps, Underway, Writes
  <2>6. PairShows'
    BY <1>0, <1>5, <2>1, <2>2, SaveDoes
       DEF Owned, PairShows, Keeps, Underway, Writes
  <2>7. RevokeShows'
    BY <1>0, <1>5, <2>1, <2>2, SaveDoes
       DEF Owned, RevokeShows, Keeps, Underway, Writes
  <2>8. QED
    BY <2>3, <2>4, <2>5, <2>6, <2>7 DEF Owned
<1>6. ASSUME NEW r \in Requests, WriteCopy(r)
      PROVE  Owned'
  <2>1. UNCHANGED stores /\ Answers(r)
    BY <1>6, WriteDoes DEF WriteCopy
  <2>2. /\ devices_json' \in {devices_json, request[r].copy}
        /\ told' \subseteq told \cup {request[r].id}
        /\ forgotten' \subseteq forgotten \cup {request[r].id}
    BY <1>6 DEF WriteCopy
  <2>3. /\ request'[r].pc = "idle" /\ request'[r].op = "none"
        /\ request'[r].copy = NoDevices
    BY <2>1, IdleRequest DEF Answers
  <2>4. \A q \in Requests : request'[q].pc = "add" => AddsNew(q)'
    BY SMTT(30), <1>0, <2>1, <2>2, <2>3, RegistryTyped
       DEF Owned, AddsAlone, AddsNew, Answers, Keeps, Underway
  <2>5. AddsAlone'
    BY <1>0, <2>1, <2>3, <2>4
       DEF Owned, AddsAlone, Answers, Keeps, Underway, Writes
  <2>6. PairedOnce'
    BY <1>0, <2>1, <2>3, <2>4
       DEF Owned, PairedOnce, Answers, Keeps, Underway, Writes
  <2>7. RevokedOnce'
    BY <1>0, <2>1, <2>3, <2>4
       DEF Owned, RevokedOnce, Answers, Keeps, Underway, Writes
  <2>8. PairShows'
    BY <1>0, <2>1, <2>3, <2>4
       DEF Owned, PairShows, Answers, Keeps, Underway, Writes
  <2>9. RevokeShows'
    BY <1>0, <2>1, <2>3, <2>4
       DEF Owned, RevokeShows, Answers, Keeps, Underway, Writes
  <2>10. QED
    BY <2>5, <2>6, <2>7, <2>8, <2>9 DEF Owned
<1>7. CASE Regenerate \/ TimePasses
  <2>1. UNCHANGED <<devices_json, stores, request, told, forgotten>>
    BY <1>7, Zenon DEF Regenerate, TimePasses
  <2>2. QED
    BY <2>1 DEF Owned, AddsAlone, PairedOnce, RevokedOnce, PairShows, RevokeShows,
                AddsNew, Underway, Writes
<1>8. CASE StartAnother \/ StopOld
  <2>1. UNCHANGED <<devices_json, request, told, forgotten>>
    BY <1>8 DEF StartAnother, StopOld
  <2>2. \/ UNCHANGED stores
        \/ /\ \A s \in 1 .. MaxStarts : s <= loaded => stores'[s] = stores[s]
           /\ \A s \in 1 .. MaxStarts :
                stores'[s] = stores[s] \/ stores'[s] = devices_json
    BY <1>0, <1>8, LoadDoes DEF StartAnother, StopOld, Loads
  <2>3. \A q \in Requests : request[q].store <= loaded
    BY <1>0
  <2>4. \A q \in Requests : request'[q].pc = "add" => AddsNew(q)'
    BY <1>0, <2>1, <2>2 DEF Owned, AddsAlone, AddsNew, Underway
  <2>5. AddsAlone'
    BY <1>0, <2>1, <2>2, <2>3, <2>4
       DEF Owned, AddsAlone, Underway, Writes
  <2>6. PairedOnce'
    BY <1>0, <2>1, <2>2, <2>3, <2>4
       DEF Owned, PairedOnce, Underway, Writes
  <2>7. RevokedOnce'
    BY <1>0, <2>1, <2>2, <2>3, <2>4
       DEF Owned, RevokedOnce, Underway, Writes
  <2>8. PairShows'
    BY <1>0, <2>1, <2>2, <2>3, <2>4
       DEF Owned, PairShows, Underway, Writes
  <2>9. RevokeShows'
    BY <1>0, <2>1, <2>2, <2>3, <2>4
       DEF Owned, RevokeShows, Underway, Writes
  <2>10. QED
    BY <2>5, <2>6, <2>7, <2>8, <2>9 DEF Owned
<1>9. CASE RestartHub
  <2>1. \A q \in Requests : request'[q].pc = "idle"
    BY <1>9, IdleRequest DEF RestartHub
  <2>2. QED
    BY <2>1 DEF Owned, AddsAlone, PairedOnce, RevokedOnce, PairShows, RevokeShows,
                Underway, Writes
<1>10. CASE UNCHANGED deviceVars
  BY <1>10 DEF deviceVars, Owned, AddsAlone, PairedOnce, RevokedOnce, PairShows,
               RevokeShows, AddsNew, Underway, Writes
<1>11. QED
  BY <1>1, <1>2, <1>3, <1>4, <1>5, <1>6, <1>7, <1>8, <1>9, <1>10 DEF DevicesNext

\* A request that changed its store, and has yet to copy it, follows the copies
\* that are being written: it is the pairing or the revocation they lack.
LEMMA ChangeFollows ==
  ASSUME DevicesTyped, Followed, NEW p \in Requests,
         NEW s \in 1 .. MaxStarts, NEW d \in DeviceIds, NEW entry,
         Enters(s, d, entry), ~Underway(p),
         request'[p].pc = "save", request'[p].store = s,
         \A q \in Requests \ {p} : request'[q] = request[q],
         stores[s][d] = Unpaired /\ entry # Unpaired
           => request'[p].op = "pair" /\ request'[p].id = d,
         stores[s][d] # Unpaired /\ entry = Unpaired
           => request'[p].op = "revoke" /\ request'[p].id = d
  PROVE  Followed'
<1> SUFFICES ASSUME NEW r \in Requests, Writes(r)'
             PROVE  /\ request'[r].late # "yes" => WillBeWritten(r)'
                    /\ request'[r].late = "no" =>
                         WillBeCopied(r)' /\ PairsComing(r)' /\ RevokesComing(r)'
  BY DEF Followed
<1>1. r # p /\ request'[r] = request[r] /\ Writes(r)
  BY DEF Writes
<1>2. request[r].store \in 1 .. MaxStarts
  BY DEF DevicesTyped, DevicesTypeOK
<1>3. /\ stores'[s][d] = entry
      /\ \A u \in 1 .. MaxStarts, e \in DeviceIds :
           u # s \/ e # d => stores'[u][e] = stores[u][e]
      /\ \A u \in (1 .. MaxStarts) \ {s} : stores'[u] = stores[u]
  BY ElsewhereKept DEF Enters
<1>4. request[r].late # "yes" => WillBeWritten(r)'
  <2>1. CASE request[r].store = s
    BY <1>1, <2>1 DEF WillBeWritten, Underway
  <2>2. CASE request[r].store # s
    BY <1>1, <1>2, <1>3, <2>2 DEF Followed, WillBeWritten, Underway
  <2>3. QED
    BY <2>1, <2>2
<1>5. ASSUME request[r].late = "no"
      PROVE  WillBeCopied(r)'
  <2>1. CASE request[r].store = s
    BY <1>1, <2>1 DEF WillBeCopied
  <2>2. CASE request[r].store # s
    BY <1>1, <1>2, <1>3, <1>5, <2>2 DEF Followed, WillBeCopied, Underway
  <2>3. QED
    BY <2>1, <2>2
<1>6. ASSUME request[r].late = "no"
      PROVE  PairsComing(r)'
  <2> SUFFICES ASSUME NEW e \in DeviceIds,
                      stores'[request[r].store][e] # Unpaired,
                      request[r].copy[e] = Unpaired
               PROVE  \E q \in Requests :
                        /\ request'[q].pc = "save"
                        /\ request'[q].op = "pair" /\ request'[q].id = e
    BY <1>1 DEF PairsComing
  <2>1. CASE stores[request[r].store][e] # Unpaired
    <3>1. PICK q \in Requests : /\ request[q].pc = "save"
                                /\ request[q].op = "pair" /\ request[q].id = e
      BY <1>1, <1>6, <2>1 DEF Followed, PairsComing
    <3>2. QED
      BY <3>1 DEF Underway
  <2>2. CASE stores[request[r].store][e] = Unpaired
    <3>1. request[r].store = s /\ e = d /\ entry # Unpaired
      BY <1>2, <1>3, <2>2
    <3>2. QED
      BY <2>2, <3>1
  <2>3. QED
    BY <2>1, <2>2
<1>7. ASSUME request[r].late = "no"
      PROVE  RevokesComing(r)'
  <2> SUFFICES ASSUME NEW e \in DeviceIds,
                      stores'[request[r].store][e] = Unpaired,
                      request[r].copy[e] # Unpaired
               PROVE  \E q \in Requests :
                        /\ request'[q].pc = "save"
                        /\ request'[q].op = "revoke" /\ request'[q].id = e
                        /\ request'[q].store = request[r].store
    BY <1>1 DEF RevokesComing
  <2>1. CASE stores[request[r].store][e] = Unpaired
    <3>1. PICK q \in Requests : /\ request[q].pc = "save"
                                /\ request[q].op = "revoke" /\ request[q].id = e
                                /\ request[q].store = request[r].store
      BY <1>1, <1>7, <2>1 DEF Followed, RevokesComing
    <3>2. QED
      BY <3>1 DEF Underway
  <2>2. CASE stores[request[r].store][e] # Unpaired
    <3>1. request[r].store = s /\ e = d /\ entry = Unpaired
      BY <1>2, <1>3, <2>2
    <3>2. QED
      BY <2>2, <3>1
  <2>3. QED
    BY <2>1, <2>2
<1>8. QED
  BY <1>1, <1>4, <1>5, <1>6, <1>7

\* Every copy is followed, whatever the step.
LEMMA FollowedStep ==
  DevicesTyped /\ Owned /\ Followed /\ [DevicesNext]_deviceVars => Followed'
<1> SUFFICES ASSUME DevicesTyped, Owned, Followed, [DevicesNext]_deviceVars
             PROVE  Followed'
  OBVIOUS
<1>0. /\ live \in 1 .. loaded /\ live \in 1 .. MaxStarts /\ MaxStarts \in Nat
      /\ loaded \in 1 .. MaxStarts
      /\ \A r \in Requests : request[r].store \in 1 .. MaxStarts
      /\ \A r \in Requests : request[r].store <= loaded
      /\ clock # Unpaired
  BY DevicesAssumption, RegistryTyped DEF DevicesTyped, DevicesTypeOK, Drawn
<1>1. ASSUME NEW r \in Requests, Pair(r)
      PROVE  Followed'
  <2>1. PICK d \in DeviceIds \ drawn : Begins(r, "add", "pair", d)
    BY <1>1, PairDoes
  <2>2. UNCHANGED stores
    BY <1>1 DEF Pair
  <2>3. \A q \in Requests : /\ request'[q].pc = "save" <=> request[q].pc = "save"
                            /\ Underway(q)' <=> Underway(q)
                            /\ Writes(q)' <=> Writes(q)
                            /\ Underway(q) => request'[q] = request[q]
    BY <2>1 DEF Begins, Underway, Writes
  <2>4. QED
    BY <2>2, <2>3 DEF Followed, WillBeWritten, WillBeCopied, PairsComing,
                      RevokesComing, Underway, Writes
<1>2. ASSUME NEW r \in Requests, Add(r)
      PROVE  Followed'
  <2>1. request[r].op = "pair" /\ ~Underway(r)
    BY <1>2 DEF Add, Owned, AddsAlone, AddsNew, Underway
  <2>2. QED
    BY <1>0, <1>2, <2>1, AddDoes, ChangeFollows DEF Keeps
<1>3. ASSUME NEW r \in Requests, Revoke(r)
      PROVE  Followed'
  <2>1. PICK d \in Known(live) :
          Enters(live, d, Unpaired) /\ Begins(r, "save", "revoke", d)
    BY <1>3, RevokeDoes
  <2>2. d \in DeviceIds /\ ~Underway(r)
    BY <2>1 DEF Known, Begins, Underway
  <2>3. QED
    BY <1>0, <2>1, <2>2, ChangeFollows DEF Begins
<1>4. ASSUME NEW r \in Requests, Touch(r)
      PROVE  Followed'
  <2>1. PICK d \in Known(live) :
          Enters(live, d, clock) /\ Begins(r, "save", "touch", d)
    BY <1>4, TouchDoes
  <2>2. d \in DeviceIds /\ stores[live][d] # Unpaired /\ ~Underway(r)
    BY <2>1 DEF Known, Begins, Underway
  <2>3. QED
    BY <1>0, <2>1, <2>2, ChangeFollows DEF Begins
<1>5. ASSUME NEW r \in Requests, SaveCopy(r)
      PROVE  Followed'
  <2>1. UNCHANGED stores
    BY <1>5 DEF SaveCopy
  <2>2. /\ Keeps(r) /\ Underway(r) /\ request'[r].pc = "write"
        /\ request'[r].copy = stores[request[r].store]
        /\ \A q \in Requests \ {r} :
             /\ Keeps(q) /\ request'[q].pc = request[q].pc
             /\ request'[q].copy = request[q].copy
             /\ Writes(q) => request'[q].late # "no"
             /\ request'[q].late # "yes" => request[q].late # "yes"
    BY <1>5, SaveDoes DEF Writes, Underway
  <2>3. WillBeWritten(r)' /\ WillBeCopied(r)' /\ PairsComing(r)' /\ RevokesComing(r)'
    BY <2>1, <2>2
       DEF WillBeWritten, WillBeCopied, PairsComing, RevokesComing, Keeps
  <2>4. ASSUME NEW q \in Requests \ {r}, Writes(q), request'[q].late # "yes"
        PROVE  WillBeWritten(q)'
    <3>1. WillBeWritten(q)
      BY <2>2, <2>4 DEF Followed
    <3>2. QED
      BY <2>1, <2>2, <3>1 DEF WillBeWritten, Keeps, Underway
  <2>5. QED
    BY <2>2, <2>3, <2>4 DEF Followed, Writes
<1>6. ASSUME NEW r \in Requests, WriteCopy(r)
      PROVE  Followed'
  <2>1. UNCHANGED stores /\ Answers(r) /\ request[r].pc = "write"
    BY <1>6, WriteDoes DEF WriteCopy
  <2>2. /\ request'[r].pc = "idle"
        /\ \A q \in Requests \ {r} :
             /\ Keeps(q) /\ request'[q].pc = request[q].pc
             /\ request'[q].copy = request[q].copy
             /\ request'[q].late # "yes" => request'[q].late = "no"
             /\ request'[q].late = "no" => request[q].late = "no"
    <3>1. \A q \in Requests : request[q].late \in {"no", "maybe", "yes"}
      BY DEF DevicesTyped, DevicesTypeOK
    <3>2. QED
      BY <2>1, <3>1, IdleRequest DEF Answers
  <2>3. ASSUME NEW q \in Requests \ {r}, Writes(q), request[q].late = "no"
        PROVE  /\ WillBeWritten(q)' /\ WillBeCopied(q)'
               /\ PairsComing(q)' /\ RevokesComing(q)'
    <3>1. WillBeCopied(q) /\ PairsComing(q) /\ RevokesComing(q)
      BY <2>3 DEF Followed
    <3>2. WillBeCopied(q)'
      BY <2>1, <2>2, <3>1 DEF WillBeCopied, Keeps
    <3>3. PairsComing(q)'
      BY <2>1, <2>2, <3>1 DEF PairsComing, Keeps
    <3>4. RevokesComing(q)'
      BY <2>1, <2>2, <3>1 DEF RevokesComing, Keeps
    <3>5. WillBeWritten(q)'
      BY <2>2, <2>3, <3>2 DEF WillBeCopied, WillBeWritten, Underway, Writes, Keeps
    <3>6. QED
      BY <3>2, <3>3, <3>4, <3>5
  <2>4. QED
    BY <2>2, <2>3 DEF Followed, Writes
<1>7. CASE Regenerate \/ TimePasses \/ UNCHANGED deviceVars
  <2>1. UNCHANGED <<stores, request>>
    BY <1>7, Zenon DEF Regenerate, TimePasses, deviceVars
  <2>2. QED
    BY <2>1 DEF Followed, WillBeWritten, WillBeCopied, PairsComing,
                RevokesComing, Underway, Writes
<1>8. CASE StartAnother \/ StopOld
  <2>1. UNCHANGED request
    BY <1>8 DEF StartAnother, StopOld
  <2>2. \A s \in 1 .. MaxStarts : s <= loaded => stores'[s] = stores[s]
    BY <1>0, <1>8, LoadDoes DEF StartAnother, StopOld, Loads
  <2>3. \A q \in Requests : stores'[request[q].store] = stores[request[q].store]
    BY <1>0, <2>2
  <2>4. QED
    BY <2>1, <2>3 DEF Followed, WillBeWritten, WillBeCopied, PairsComing,
                      RevokesComing, Underway, Writes
<1>9. CASE RestartHub
  <2>1. \A q \in Requests : request'[q].pc = "idle"
    BY <1>9, IdleRequest DEF RestartHub
  <2>2. QED
    BY <2>1 DEF Followed, Writes
<1>10. QED
  BY <1>1, <1>2, <1>3, <1>4, <1>5, <1>6, <1>7, <1>8, <1>9 DEF DevicesNext

\* A change of one entry keeps what is on file: what was told stays known, and
\* what was forgotten unknown, if the change is not about it.
LEMMA ChangeIsFiled ==
  ASSUME DevicesTyped, Filed, ~crossed, ~unwritten, NEW p \in Requests,
         NEW s \in 1 .. MaxStarts, NEW d \in DeviceIds, NEW entry,
         Enters(s, d, entry), ~Underway(p),
         request'[p].pc = "save", request'[p].store = s,
         \A q \in Requests \ {p} : request'[q] = request[q],
         UNCHANGED <<devices_json, loaded, live>>,
         told' \subseteq told, forgotten' = forgotten,
         entry = Unpaired => d \notin told',
         entry # Unpaired => d \notin forgotten
  PROVE  Filed'
<1>1. /\ stores'[s][d] = entry
      /\ \A u \in 1 .. MaxStarts, e \in DeviceIds :
           u # s \/ e # d => stores'[u][e] = stores[u][e]
      /\ \A u \in (1 .. MaxStarts) \ {s} : stores'[u] = stores[u]
  BY ElsewhereKept DEF Enters
<1>2. /\ live \in 1 .. MaxStarts /\ loaded \in 1 .. MaxStarts
      /\ told \subseteq DeviceIds /\ forgotten \subseteq DeviceIds
  BY DevicesAssumption DEF DevicesTyped, DevicesTypeOK, Drawn
<1>3. \A u \in 1 .. MaxStarts : KeepsUp(u) => KeepsUp(u)'
  <2> SUFFICES ASSUME NEW u \in 1 .. MaxStarts, KeepsUp(u)
               PROVE  KeepsUp(u)'
    OBVIOUS
  <2>1. CASE u = s
    BY <2>1 DEF KeepsUp, Underway
  <2>2. CASE u # s
    BY <1>1, <2>2 DEF KeepsUp, Underway
  <2>3. QED
    BY <2>1, <2>2
<1>4. \A q \in Requests : Counts(q)' => Counts(q) /\ request'[q] = request[q]
  BY DEF Counts, Writes
<1>5. ToldLast'
  BY <1>1, <1>2, <1>4 DEF Filed, ToldLast
<1>6. ForgottenLast'
  BY <1>1, <1>2, <1>4 DEF Filed, ForgottenLast
<1>7. QED
  BY <1>2, <1>3, <1>5, <1>6 DEF Filed

\* Every step keeps what is on file.
LEMMA FiledStep ==
  DevicesTyped /\ Owned /\ Followed /\ Filed /\ [DevicesNext]_deviceVars => Filed'
<1> SUFFICES ASSUME DevicesTyped, Owned, Followed, Filed, [DevicesNext]_deviceVars,
                    ~crossed', ~unwritten'
             PROVE  /\ KeepsUp(live)' /\ KeepsUp(loaded)'
                    /\ ToldLast' /\ ForgottenLast'
  BY DEF Filed
<1>a. ~crossed /\ ~unwritten
  <2>1. ASSUME NEW r \in Requests, WriteCopy(r)
        PROVE  ~crossed /\ ~unwritten
    <3>1. unwritten' # TRUE
      OBVIOUS
    <3>2. unwritten' = unwritten
          /\ crossed' = (crossed \/ request[r].late = "yes" \/ request[r].store # loaded)
      BY <2>1, <3>1, Zenon DEF WriteCopy
    <3>3. QED
      BY <3>2
  <2>2. ASSUME NEW r \in Requests,
               Pair(r) \/ Add(r) \/ Revoke(r) \/ Touch(r) \/ SaveCopy(r)
        PROVE  UNCHANGED <<crossed, unwritten>>
    BY <2>2, Zenon DEF Pair, Add, Revoke, Touch, SaveCopy
  <2>3. ASSUME Regenerate \/ TimePasses \/ StartAnother \/ StopOld \/ RestartHub
               \/ UNCHANGED deviceVars
        PROVE  UNCHANGED <<crossed, unwritten>>
    BY <2>3, Zenon DEF Regenerate, TimePasses, StartAnother, StopOld, RestartHub,
                       deviceVars
  <2>4. QED
    BY <2>1, <2>2, <2>3 DEF DevicesNext
<1>0. /\ live \in 1 .. loaded /\ live \in 1 .. MaxStarts /\ MaxStarts \in Nat
      /\ loaded \in 1 .. MaxStarts
      /\ \A r \in Requests : /\ request[r].store \in 1 .. MaxStarts
                             /\ request[r].store <= live
                             /\ request[r].pc # "idle" => request[r].id \in DeviceIds
      /\ clock # Unpaired
      /\ told \subseteq DeviceIds /\ forgotten \subseteq DeviceIds
      /\ KeepsUp(live) /\ KeepsUp(loaded) /\ ToldLast /\ ForgottenLast
  BY <1>a, DevicesAssumption, RegistryTyped
     DEF DevicesTyped, DevicesTypeOK, Drawn, Filed
<1>1. ASSUME NEW r \in Requests, Pair(r)
      PROVE  Filed'
  <2>1. PICK d \in DeviceIds \ drawn : Begins(r, "add", "pair", d)
    BY <1>1, PairDoes
  <2>2. UNCHANGED <<devices_json, stores, loaded, live, told, forgotten>>
    BY <1>1 DEF Pair
  <2>3. \A q \in Requests : /\ Underway(q)' <=> Underway(q)
                            /\ Counts(q)' <=> Counts(q)
                            /\ Underway(q) => request'[q] = request[q]
                            /\ Counts(q) => request'[q] = request[q]
    BY <2>1, <2>2 DEF Begins, Underway, Writes, Counts
  <2>4. QED
    BY <1>0, <2>2, <2>3 DEF Filed, KeepsUp, ToldLast, ForgottenLast
<1>2. ASSUME NEW r \in Requests, Add(r)
      PROVE  Filed'
  <2>1. request[r].id \notin forgotten /\ ~Underway(r)
    BY <1>2 DEF Add, Owned, AddsAlone, AddsNew, Underway
  <2>2. UNCHANGED <<devices_json, loaded, live, told, forgotten>>
    BY <1>2 DEF Add
  <2>3. QED
    BY <1>0, <1>2, <1>a, <2>1, <2>2, AddDoes, ChangeIsFiled DEF Keeps
<1>3. ASSUME NEW r \in Requests, Revoke(r)
      PROVE  Filed'
  <2>1. PICK d \in Known(live) :
          /\ Enters(live, d, Unpaired) /\ told' = told \ {d}
          /\ Begins(r, "save", "revoke", d)
    BY <1>3, RevokeDoes
  <2>2. d \in DeviceIds /\ ~Underway(r)
    BY <2>1 DEF Known, Begins, Underway
  <2>3. UNCHANGED <<devices_json, loaded, live, forgotten>>
    BY <1>3 DEF Revoke
  <2>4. QED
    BY <1>0, <1>a, <2>1, <2>2, <2>3, ChangeIsFiled DEF Begins
<1>4. ASSUME NEW r \in Requests, Touch(r)
      PROVE  Filed'
  <2>1. PICK d \in Known(live) :
          Enters(live, d, clock) /\ Begins(r, "save", "touch", d)
    BY <1>4, TouchDoes
  <2>2. d \in DeviceIds /\ d \notin forgotten /\ ~Underway(r)
    BY <1>0, <2>1 DEF Known, Begins, Underway, ForgottenLast
  <2>3. UNCHANGED <<devices_json, loaded, live, told, forgotten>>
    BY <1>4 DEF Touch
  <2>4. QED
    BY <1>0, <1>a, <2>1, <2>2, <2>3, ChangeIsFiled DEF Begins
<1>5. ASSUME NEW r \in Requests, SaveCopy(r)
      PROVE  Filed'
  <2>1. UNCHANGED <<devices_json, stores, loaded, live, told, forgotten>>
    BY <1>5 DEF SaveCopy
  <2>2. /\ Keeps(r) /\ Underway(r) /\ request'[r].pc = "write"
        /\ request'[r].copy = stores[request[r].store]
        /\ \A q \in Requests \ {r} :
             /\ Keeps(q) /\ request'[q].pc = request[q].pc
             /\ request'[q].copy = request[q].copy
             /\ request'[q].late # "yes" => request[q].late # "yes"
    BY <1>5, SaveDoes DEF Writes, Underway
  <2>3. \A u \in 1 .. MaxStarts : KeepsUp(u) => KeepsUp(u)'
    BY <2>1, <2>2 DEF KeepsUp, Keeps, Underway
  <2>4. \A q \in Requests \ {r} : Counts(q)' => Counts(q)
    BY <2>1, <2>2 DEF Counts, Keeps, Writes
  <2>5. Counts(r)' => request'[r].copy = stores[loaded]
    BY <2>1, <2>2 DEF Counts, Keeps
  <2>6. ToldLast'
    BY <1>0, <2>1, <2>2, <2>4, <2>5 DEF ToldLast
  <2>7. ForgottenLast'
    BY <1>0, <2>1, <2>2, <2>4, <2>5 DEF ForgottenLast
  <2>8. QED
    BY <1>0, <2>1, <2>3, <2>6, <2>7 DEF Filed
<1>6. ASSUME NEW r \in Requests, WriteCopy(r)
      PROVE  Filed'
  <2>1. UNCHANGED <<stores, loaded, live>> /\ Answers(r) /\ Writes(r)
    BY <1>6, WriteDoes DEF WriteCopy, Writes
  <2>2. /\ devices_json' = request[r].copy
        /\ request[r].late # "yes" /\ request[r].store = loaded
        /\ live = loaded
    <3>1. /\ devices_json' = request[r].copy
          /\ request[r].late # "yes" /\ request[r].store = loaded
      BY <1>6, Zenon DEF WriteCopy
    <3>2. QED
      BY <1>0, <3>1
  <2>3. /\ request'[r].pc = "idle"
        /\ \A q \in Requests \ {r} :
             /\ Keeps(q) /\ request'[q].pc = request[q].pc
             /\ request'[q].copy = request[q].copy
             /\ request'[q].late # "yes" => request[q].late = "no"
    <3>1. \A q \in Requests : request[q].late \in {"no", "maybe", "yes"}
      BY DEF DevicesTyped, DevicesTypeOK
    <3>2. QED
      BY <2>1, <3>1, IdleRequest DEF Answers
  <2>4. KeepsUp(live)'
    <3>1. WillBeWritten(r)
      BY <2>1, <2>2 DEF Followed
    <3>2. QED
      BY <2>1, <2>2, <2>3, <3>1 DEF WillBeWritten, KeepsUp, Underway, Keeps
  <2>5. \A q \in Requests : Counts(q)' =>
          /\ Counts(q) /\ request'[q].copy = request[q].copy
          /\ request[q].late = "no" /\ q # r
    BY <2>1, <2>3 DEF Counts, Writes, Keeps
  <2>6. Counts(r)
    BY <2>1, <2>2 DEF Counts
  <2>7. ToldLast'
    <3>1. ASSUME NEW d \in told
          PROVE  /\ request[r].copy[d] # Unpaired /\ stores[loaded][d] # Unpaired
                 /\ \A q \in Requests : Counts(q)' => request[q].copy[d] # Unpaired
      BY <1>0, <2>5, <2>6 DEF ToldLast
    <3>2. ASSUME request[r].op = "pair", request[r].id \in Known(live)
          PROVE  LET d == request[r].id
                 IN  /\ request[r].copy[d] # Unpaired
                     /\ stores[loaded][d] # Unpaired
                     /\ \A q \in Requests :
                          Counts(q)' => request[q].copy[d] # Unpaired
      <4>1. stores[loaded][request[r].id] # Unpaired /\ request[r].id \in DeviceIds
        BY <2>2, <3>2 DEF Known
      <4>2. request[r].copy[request[r].id] # Unpaired
        BY <2>1, <2>2, <3>2, <4>1 DEF Owned, PairShows
      <4>3. ASSUME NEW q \in Requests, Counts(q)',
                   request[q].copy[request[r].id] = Unpaired
            PROVE  FALSE
        <5>1. PairsComing(q) /\ request[q].store = loaded
          BY <2>5, <4>3 DEF Followed, Counts
        <5>2. PICK p \in Requests : /\ request[p].pc = "save"
                                    /\ request[p].op = "pair"
                                    /\ request[p].id = request[r].id
          BY <4>1, <4>3, <5>1 DEF PairsComing
        <5>3. QED
          BY <2>1, <3>2, <5>2 DEF Owned, PairedOnce, Writes
      <4>4. QED
        BY <4>1, <4>2, <4>3
    <3>3. told' \subseteq told \cup {request[r].id}
          /\ (told' # told => request[r].op = "pair" /\ request[r].id \in Known(live))
      BY <1>6 DEF WriteCopy
    <3>4. QED
      BY <2>1, <2>2, <2>5, <3>1, <3>2, <3>3 DEF ToldLast
  <2>8. ForgottenLast'
    <3>1. ASSUME NEW d \in forgotten
          PROVE  /\ request[r].copy[d] = Unpaired /\ stores[loaded][d] = Unpaired
                 /\ \A q \in Requests : Counts(q)' => request[q].copy[d] = Unpaired
      BY <1>0, <2>5, <2>6 DEF ForgottenLast
    <3>2. ASSUME request[r].op = "revoke"
          PROVE  LET d == request[r].id
                 IN  /\ request[r].copy[d] = Unpaired
                     /\ stores[loaded][d] = Unpaired
                     /\ \A q \in Requests :
                          Counts(q)' => request[q].copy[d] = Unpaired
      <4>1. /\ stores[loaded][request[r].id] = Unpaired
            /\ request[r].copy[request[r].id] = Unpaired
            /\ request[r].id \in DeviceIds /\ Underway(r)
        BY <1>0, <2>1, <2>2, <3>2 DEF Owned, RevokeShows, Underway, Writes
      <4>2. ASSUME NEW q \in Requests, Counts(q)',
                   request[q].copy[request[r].id] # Unpaired
            PROVE  FALSE
        <5>1. RevokesComing(q) /\ request[q].store = loaded
          BY <2>5, <4>2 DEF Followed, Counts
        <5>2. PICK p \in Requests : /\ request[p].pc = "save"
                                    /\ request[p].op = "revoke"
                                    /\ request[p].id = request[r].id
                                    /\ request[p].store = request[r].store
          BY <2>2, <4>1, <4>2, <5>1 DEF RevokesComing
        <5>3. QED
          BY <2>1, <3>2, <4>1, <5>2 DEF Owned, RevokedOnce, Writes, Underway
      <4>3. QED
        BY <4>1, <4>2
    <3>3. forgotten' \subseteq forgotten \cup {request[r].id}
          /\ (forgotten' # forgotten => request[r].op = "revoke")
      BY <1>6 DEF WriteCopy
    <3>4. QED
      BY <2>1, <2>2, <2>5, <3>1, <3>2, <3>3 DEF ForgottenLast
  <2>9. QED
    BY <2>1, <2>2, <2>4, <2>7, <2>8 DEF Filed
<1>7. CASE Regenerate \/ TimePasses \/ UNCHANGED deviceVars
  <2>1. UNCHANGED <<devices_json, stores, loaded, live, request, told, forgotten>>
    BY <1>7, Zenon DEF Regenerate, TimePasses, deviceVars
  <2>2. QED
    BY <1>0, <2>1 DEF Filed, KeepsUp, ToldLast, ForgottenLast, Counts, Underway, Writes
<1>8. CASE StartAnother
  <2>1. UNCHANGED <<devices_json, live, request, told, forgotten>> /\ Loads
    BY <1>8, LoadDoes DEF StartAnother
  <2>2. stores'[loaded'] = devices_json' /\ stores'[live] = stores[live]
    BY <1>0, <2>1 DEF Loads
  <2>3. \A q \in Requests : ~Counts(q)'
    BY <1>0, <2>1 DEF Counts, Loads
  <2>4. QED
    BY <1>0, <2>1, <2>2, <2>3 DEF Filed, KeepsUp, ToldLast, ForgottenLast, Underway
<1>9. CASE StopOld
  <2>1. UNCHANGED <<devices_json, stores, loaded, request, told, forgotten>>
        /\ live' = loaded
    BY <1>9 DEF StopOld
  <2>2. QED
    BY <1>0, <2>1 DEF Filed, KeepsUp, ToldLast, ForgottenLast, Counts, Underway, Writes
<1>10. CASE RestartHub
  <2>1. /\ UNCHANGED <<devices_json, told, forgotten>> /\ Loads
        /\ live' = loaded + 1
    BY <1>10, LoadDoes DEF RestartHub
  <2>2. \A q \in Requests : request'[q].pc = "idle"
    BY <1>10, IdleRequest DEF RestartHub
  <2>3. stores'[loaded'] = devices_json' /\ live' = loaded'
    BY <2>1 DEF Loads
  <2>4. QED
    BY <1>0, <2>1, <2>2, <2>3
       DEF Filed, KeepsUp, ToldLast, ForgottenLast, Counts, Writes
<1>11. QED
  BY <1>1, <1>2, <1>3, <1>4, <1>5, <1>6, <1>7, <1>8, <1>9, <1>10
     DEF DevicesNext, Filed

\* The whole of it is an invariant of the devices.
DevicesInv == DevicesTyped /\ Owned /\ Followed /\ Filed
LEMMA DevicesInvAlways == DevicesSpec => []DevicesInv
<1>1. DevicesInit => Owned /\ Followed /\ Filed
  <2> SUFFICES ASSUME DevicesInit
               PROVE  Owned /\ Followed /\ Filed
    OBVIOUS
  <2>1. \A r \in Requests : request[r].pc = "idle"
    BY IdleRequest DEF DevicesInit
  <2>2. Owned
    BY <2>1 DEF Owned, AddsAlone, PairedOnce, RevokedOnce, PairShows, RevokeShows,
                Underway, Writes
  <2>3. Followed
    BY <2>1 DEF Followed, Writes
  <2>4. live \in 1 .. MaxStarts /\ stores[live] = devices_json /\ live = loaded
    BY DevicesAssumption, RegistryTyped DEF DevicesInit
  <2>5. told = {} /\ forgotten = {}
    BY DEF DevicesInit
  <2>6. QED
    BY <2>2, <2>3, <2>4, <2>5 DEF Filed, KeepsUp, ToldLast, ForgottenLast
<1>2. DevicesInv /\ [DevicesNext]_deviceVars => DevicesInv'
  BY DevicesTypedStep, OwnedStep, FollowedStep, FiledStep DEF DevicesInv
<1>3. DevicesInit /\ DevicesTyped => DevicesInv
  BY <1>1 DEF DevicesInv
<1>4. QED
  BY <1>2, <1>3, DevicesTypedAlways, PTL DEF DevicesSpec

\* When no request is under way the file has what the answering store has,
\* however saves, rebinds and restarts interleaved, unless an older copy was
\* written over a newer one or a write failed.
THEOREM DevicesFileKeepsUp == DevicesSpec => []FileKeepsUp
<1>1. DevicesInv => FileKeepsUp
  BY DEF DevicesInv, Filed, KeepsUp, FileKeepsUp, Underway
<1>2. QED
  BY <1>1, DevicesInvAlways, PTL

\* A device that got its token is on file until it is revoked, and a device
\* whose revocation was answered is not on file again, under the same proviso.
THEOREM DevicesAnswersLast == DevicesSpec => []AnswersLast
<1>1. DevicesInv => AnswersLast
  BY DEF DevicesInv, Filed, ToldLast, ForgottenLast, AnswersLast
<1>2. QED
  BY <1>1, DevicesInvAlways, PTL
\* The steps that change the server, and those that write the file.
ServerSteps == {"server", "start", "restart", "restore"}
SaveSteps == {"save", "try save"}
Todo(plan) == {plan[k] : k \in DOMAIN plan}

\* What a thread may have left to do.
ConfigPlans ==
  {<<step, "save", "memory", "engine", "source">> : step \in ServerSteps} \cup
  {<<"save", "memory", "engine", "source">>, <<"memory", "engine", "source">>,
   <<"engine", "source">>, <<"source">>}
MenuPlans ==
  {<<step, "memory", "engine">> : step \in SaveSteps} \cup
  {<<"memory", "engine">>, <<"engine">>}
PickPlans ==
  {<<"save", "memory", "engine", "source", "server">>,
   <<"memory", "engine", "source", "server">>, <<"engine", "source", "server">>,
   <<"source", "server">>} \cup {<<step>> : step \in ServerSteps}
Plans(t) == IF t = "main" THEN ConfigPlans \cup MenuPlans ELSE PickPlans

\* A plan is worked through in order: the steps left are those that were left
\* before but the first; on the main thread the server comes before the save,
\* on the worker last.
InOrder(t, plan) ==
  LET step == Head(plan)  todo == Todo(plan) IN
  /\ plan # <<>> /\ step \in todo
  /\ Tail(plan) \in Plans(t) \cup {<<>>}
  /\ Todo(Tail(plan)) = todo \ {step}
  /\ step \in ServerSteps =>
       /\ todo \cap ServerSteps = {step}
       /\ \A x \in ServerSteps : /\ <<x>> \o Tail(plan) \in Plans(t)
                                 /\ Todo(<<x>> \o Tail(plan)) = (todo \ {step}) \cup {x}
       /\ IF t = "main"
          THEN todo \cap SaveSteps # {} /\ {"memory", "engine", "source"} \subseteq todo
          ELSE todo = {step}
  /\ step \in SaveSteps =>
       /\ todo \cap SaveSteps = {step} /\ "memory" \in todo
       /\ t = "main" => todo \cap ServerSteps = {}
  /\ step = "source" => "memory" \notin todo

\* The steps of a plan that is written down.
LEMMA TodoTuples ==
  /\ Todo(<<>>) = {}
  /\ \A a : Todo(<<a>>) = {a}
  /\ \A a, b : Todo(<<a, b>>) = {a, b}
  /\ \A a, b, c : Todo(<<a, b, c>>) = {a, b, c}
  /\ \A a, b, c, d : Todo(<<a, b, c, d>>) = {a, b, c, d}
  /\ \A a, b, c, d, e : Todo(<<a, b, c, d, e>>) = {a, b, c, d, e}
<1>1. Todo(<<>>) = {}
  BY DEF Todo
<1>2. \A a : Todo(<<a>>) = {a}
  BY DEF Todo
<1>3. \A a, b : Todo(<<a, b>>) = {a, b}
  BY DEF Todo
<1>4. \A a, b, c : Todo(<<a, b, c>>) = {a, b, c}
  BY DEF Todo
<1>5. \A a, b, c, d : Todo(<<a, b, c, d>>) = {a, b, c, d}
  BY DEF Todo
<1>6. \A a, b, c, d, e : Todo(<<a, b, c, d, e>>) = {a, b, c, d, e}
  BY DEF Todo
<1>7. QED
  BY <1>1, <1>2, <1>3, <1>4, <1>5, <1>6

\* A step may be put before what is left of the longest plan.
LEMMA StepBeforeFour ==
  ASSUME NEW a, NEW b, NEW c, NEW d, NEW e
  PROVE  <<a>> \o <<b, c, d, e>> = <<a, b, c, d, e>>
<1> DEFINE S == {a, b, c, d, e}
           one == <<a>>
           four == <<b, c, d, e>>
           five == <<a, b, c, d, e>>
<1>1. /\ one \in Seq(S) /\ four \in Seq(S) /\ five \in Seq(S)
      /\ Len(one) = 1 /\ Len(four) = 4 /\ Len(five) = 5
  OBVIOUS
<1>2. /\ one[1] = a /\ four[1] = b /\ four[2] = c /\ four[3] = d /\ four[4] = e
      /\ five[1] = a /\ five[2] = b /\ five[3] = c /\ five[4] = d /\ five[5] = e
  OBVIOUS
<1> HIDE DEF one, four, five
<1>3. one \o four \in Seq(S) /\ Len(one \o four) = Len(one) + Len(four)
  BY <1>1, ConcatProperties
<1>4. \A i \in 1 .. Len(one) + Len(four) :
        (one \o four)[i] = IF i <= Len(one) THEN one[i] ELSE four[i - Len(one)]
  BY <1>1, ConcatProperties, Zenon
<1>5. /\ Len(one \o four) = 5
      /\ \A i \in 1 .. 5 : (one \o four)[i] = IF i <= 1 THEN one[i] ELSE four[i - 1]
  BY <1>1, <1>3, <1>4
<1>6. \A i \in 1 .. 5 : (one \o four)[i] = five[i]
  BY <1>2, <1>5
<1>7. one \o four = five
  BY <1>1, <1>3, <1>5, <1>6, SeqEqual
<1>8. QED
  BY <1>7 DEF one, four, five

\* Every plan is worked through in order.
LEMMA PlansAreInOrder ==
  ASSUME NEW t \in Threads, NEW plan \in Plans(t)
  PROVE  InOrder(t, plan)
<1>1. CASE t = "main" /\ plan \in ConfigPlans
  <2>1. ASSUME NEW x \in ServerSteps,
              plan = <<x, "save", "memory", "engine", "source">>
       PROVE  InOrder(t, plan)
    <3>1. /\ plan # <<>> /\ Head(plan) = x
          /\ Tail(plan) = <<"save", "memory", "engine", "source">>
      BY <2>1
    <3>2. /\ Todo(plan) = {x, "save", "memory", "engine", "source"}
          /\ Todo(Tail(plan)) = {"save", "memory", "engine", "source"}
      BY <2>1, <3>1, TodoTuples
    <3>3. \A y : <<y>> \o Tail(plan) = <<y, "save", "memory", "engine", "source">>
      BY <3>1, StepBeforeFour
    <3>4. ASSUME NEW y
          PROVE  Todo(<<y>> \o Tail(plan)) = {y, "save", "memory", "engine", "source"}
      <4>1. Todo(<<y, "save", "memory", "engine", "source">>)
              = {y, "save", "memory", "engine", "source"}
        BY TodoTuples
      <4>2. QED
        BY <3>3, <4>1
    <3>5. \A y \in ServerSteps : <<y>> \o Tail(plan) \in Plans(t)
      BY <1>1, <3>3 DEF Plans, ConfigPlans
    <3>6. Tail(plan) \in Plans(t)
      BY <1>1, <3>1 DEF Plans, ConfigPlans
    <3>7. /\ Todo(plan) \cap ServerSteps = {x} /\ x \notin SaveSteps
          /\ "save" \in Todo(plan) \cap SaveSteps
          /\ {"memory", "engine", "source"} \subseteq Todo(plan)
          /\ Todo(Tail(plan)) = Todo(plan) \ {x}
      BY <3>2 DEF ServerSteps, SaveSteps
    <3>8. \A y \in ServerSteps :
            Todo(<<y>> \o Tail(plan)) = (Todo(plan) \ {x}) \cup {y}
      BY <3>2, <3>4 DEF ServerSteps
    <3>9. QED
      BY <1>1, <3>1, <3>2, <3>5, <3>6, <3>7, <3>8 DEF InOrder
  <2>2. CASE plan = <<"save", "memory", "engine", "source">>
    <3>1. /\ plan # <<>> /\ Head(plan) = "save"
          /\ Tail(plan) = <<"memory", "engine", "source">>
      BY <2>2
    <3>2. /\ Todo(plan) = {"save", "memory", "engine", "source"}
          /\ Todo(Tail(plan)) = {"memory", "engine", "source"}
      BY <2>2, <3>1, TodoTuples
    <3>3. Tail(plan) \in Plans(t)
      BY <1>1, <3>1 DEF Plans, ConfigPlans
    <3>4. QED
      BY <1>1, <3>1, <3>2, <3>3 DEF InOrder, ServerSteps, SaveSteps
  <2>3. CASE plan = <<"memory", "engine", "source">>
    <3>1. plan # <<>> /\ Head(plan) = "memory" /\ Tail(plan) = <<"engine", "source">>
      BY <2>3
    <3>2. /\ Todo(plan) = {"memory", "engine", "source"}
          /\ Todo(Tail(plan)) = {"engine", "source"}
      BY <2>3, <3>1, TodoTuples
    <3>3. Tail(plan) \in Plans(t)
      BY <1>1, <3>1 DEF Plans, ConfigPlans
    <3>4. QED
      BY <1>1, <3>1, <3>2, <3>3 DEF InOrder, ServerSteps, SaveSteps
  <2>4. CASE plan = <<"engine", "source">>
    <3>1. plan # <<>> /\ Head(plan) = "engine" /\ Tail(plan) = <<"source">>
      BY <2>4
    <3>2. /\ Todo(plan) = {"engine", "source"}
          /\ Todo(Tail(plan)) = {"source"}
      BY <2>4, <3>1, TodoTuples
    <3>3. Tail(plan) \in Plans(t)
      BY <1>1, <3>1 DEF Plans, ConfigPlans
    <3>4. QED
      BY <1>1, <3>1, <3>2, <3>3 DEF InOrder, ServerSteps, SaveSteps
  <2>5. CASE plan = <<"source">>
    <3>1. plan # <<>> /\ Head(plan) = "source" /\ Tail(plan) = <<>>
      BY <2>5
    <3>2. /\ Todo(plan) = {"source"}
          /\ Todo(Tail(plan)) = {}
      BY <2>5, <3>1, TodoTuples
    <3>3. QED
      BY <1>1, <3>1, <3>2 DEF InOrder, ServerSteps, SaveSteps
  <2>6. QED
    BY <1>1, <2>1, <2>2, <2>3, <2>4, <2>5 DEF ConfigPlans
<1>2. CASE t = "main" /\ plan \in MenuPlans
  <2>1. ASSUME NEW x \in SaveSteps,
              plan = <<x, "memory", "engine">>
       PROVE  InOrder(t, plan)
    <3>1. plan # <<>> /\ Head(plan) = x /\ Tail(plan) = <<"memory", "engine">>
      BY <2>1
    <3>2. /\ Todo(plan) = {x, "memory", "engine"}
          /\ Todo(Tail(plan)) = {"memory", "engine"}
      BY <2>1, <3>1, TodoTuples
    <3>3. Tail(plan) \in Plans(t)
      BY <1>2, <3>1 DEF Plans, MenuPlans
    <3>4. QED
      BY <1>2, <2>1, <3>1, <3>2, <3>3 DEF InOrder, ServerSteps, SaveSteps
  <2>2. CASE plan = <<"memory", "engine">>
    <3>1. plan # <<>> /\ Head(plan) = "memory" /\ Tail(plan) = <<"engine">>
      BY <2>2
    <3>2. /\ Todo(plan) = {"memory", "engine"}
          /\ Todo(Tail(plan)) = {"engine"}
      BY <2>2, <3>1, TodoTuples
    <3>3. Tail(plan) \in Plans(t)
      BY <1>2, <3>1 DEF Plans, MenuPlans
    <3>4. QED
      BY <1>2, <3>1, <3>2, <3>3 DEF InOrder, ServerSteps, SaveSteps
  <2>3. CASE plan = <<"engine">>
    <3>1. plan # <<>> /\ Head(plan) = "engine" /\ Tail(plan) = <<>>
      BY <2>3
    <3>2. /\ Todo(plan) = {"engine"}
          /\ Todo(Tail(plan)) = {}
      BY <2>3, <3>1, TodoTuples
    <3>3. QED
      BY <1>2, <3>1, <3>2 DEF InOrder, ServerSteps, SaveSteps
  <2>4. QED
    BY <1>2, <2>1, <2>2, <2>3 DEF MenuPlans
<1>3. CASE t # "main" /\ plan \in PickPlans
  <2>1. CASE plan = <<"save", "memory", "engine", "source", "server">>
    <3>1. /\ plan # <<>> /\ Head(plan) = "save"
          /\ Tail(plan) = <<"memory", "engine", "source", "server">>
      BY <2>1
    <3>2. /\ Todo(plan) = {"save", "memory", "engine", "source", "server"}
          /\ Todo(Tail(plan)) = {"memory", "engine", "source", "server"}
      BY <2>1, <3>1, TodoTuples
    <3>3. Tail(plan) \in Plans(t)
      BY <1>3, <3>1 DEF Plans, PickPlans, ServerSteps
    <3>4. QED
      BY <1>3, <3>1, <3>2, <3>3 DEF InOrder, ServerSteps, SaveSteps
  <2>2. CASE plan = <<"memory", "engine", "source", "server">>
    <3>1. /\ plan # <<>> /\ Head(plan) = "memory"
          /\ Tail(plan) = <<"engine", "source", "server">>
      BY <2>2
    <3>2. /\ Todo(plan) = {"memory", "engine", "source", "server"}
          /\ Todo(Tail(plan)) = {"engine", "source", "server"}
      BY <2>2, <3>1, TodoTuples
    <3>3. Tail(plan) \in Plans(t)
      BY <1>3, <3>1 DEF Plans, PickPlans, ServerSteps
    <3>4. QED
      BY <1>3, <3>1, <3>2, <3>3 DEF InOrder, ServerSteps, SaveSteps
  <2>3. CASE plan = <<"engine", "source", "server">>
    <3>1. plan # <<>> /\ Head(plan) = "engine" /\ Tail(plan) = <<"source", "server">>
      BY <2>3
    <3>2. /\ Todo(plan) = {"engine", "source", "server"}
          /\ Todo(Tail(plan)) = {"source", "server"}
      BY <2>3, <3>1, TodoTuples
    <3>3. Tail(plan) \in Plans(t)
      BY <1>3, <3>1 DEF Plans, PickPlans, ServerSteps
    <3>4. QED
      BY <1>3, <3>1, <3>2, <3>3 DEF InOrder, ServerSteps, SaveSteps
  <2>4. CASE plan = <<"source", "server">>
    <3>1. plan # <<>> /\ Head(plan) = "source" /\ Tail(plan) = <<"server">>
      BY <2>4
    <3>2. /\ Todo(plan) = {"source", "server"}
          /\ Todo(Tail(plan)) = {"server"}
      BY <2>4, <3>1, TodoTuples
    <3>3. Tail(plan) \in Plans(t)
      BY <1>3, <3>1 DEF Plans, PickPlans, ServerSteps
    <3>4. QED
      BY <1>3, <3>1, <3>2, <3>3 DEF InOrder, ServerSteps, SaveSteps
  <2>5. ASSUME NEW x \in ServerSteps,
              plan = <<x>>
       PROVE  InOrder(t, plan)
    <3>1. plan # <<>> /\ Head(plan) = x /\ Tail(plan) = <<>>
      BY <2>5
    <3>2. /\ Todo(plan) = {x}
          /\ Todo(Tail(plan)) = {}
      BY <2>5, <3>1, TodoTuples
    <3>3. \A y : <<y>> \o Tail(plan) = <<y>>
      <4>1. \A y : <<y>> \o <<>> = <<y>>
        OBVIOUS
      <4>2. QED
        BY <3>1, <4>1
    <3>4. \A y : Todo(<<y>> \o Tail(plan)) = {y}
      BY <3>3, TodoTuples, Zenon
    <3>5. \A y \in ServerSteps : <<y>> \o Tail(plan) \in Plans(t)
      BY <1>3, <3>3 DEF Plans, PickPlans
    <3>6. QED
      BY <1>3, <2>5, <3>1, <3>2, <3>3, <3>4, <3>5 DEF InOrder, ServerSteps, SaveSteps
  <2>6. QED
    BY <1>3, <2>1, <2>2, <2>3, <2>4, <2>5 DEF PickPlans
<1>4. QED
  BY <1>1, <1>2, <1>3 DEF Plans

-----------------------------------------------------------------------------
(***************************************************************************)
(* The settings: what a command has done and what it has left.             *)
(***************************************************************************)
Left(t) == Todo(job[t].plan)

\* What a thread works through, and what its settings have to do with it: a
\* command without a source step does not touch the source, one of the worker
\* not the server, and only set_config changes whether there is to be one.
JobFits(t) ==
  LET prev == job[t].prev  next == job[t].next IN
  /\ job[t].plan \in Plans(t) \cup {<<>>}
  /\ t = "main" /\ "memory" \in Left(t) /\ "source" \notin Left(t)
     => ~SourceFieldsChanged(prev, next)
  /\ t # "main" /\ Busy(t)
     => ~ServerFieldsChanged(prev, next) /\ next.source_kind = "file"
  /\ "try save" \in Left(t) => next.server_enabled = prev.server_enabled
  /\ {"start", "restart", "restore"} \cap Left(t) # {} => next.server_enabled

\* How far a command from prev to next has come, with `todo' left.
Held(prev, next, todo) ==
  /\ memory = IF "memory" \in todo THEN prev ELSE next
  /\ disk.server_enabled = IF SaveSteps \cap todo = {} THEN next.server_enabled
                                                      ELSE prev.server_enabled
  /\ SaveSteps \cap todo # {} /\ ServerSteps \cap todo = {}
     => next.server_enabled \in {prev.server_enabled, Running}
Applied(prev, next, todo) ==
  /\ disk = IF SaveSteps \cap todo = {} THEN next ELSE prev
  /\ engine_config = IF "engine" \in todo THEN prev ELSE next
  /\ engine_source = BuildSource(IF "source" \in todo THEN prev ELSE next)
  /\ \/ pin = next.always_on_top
     \/ "memory" \in todo /\ pin = prev.always_on_top
  /\ "memory" \in todo /\ ServerSteps \cap todo # {} => pin = prev.always_on_top

\* A server that runs is the one that settings describe.
ServerOf(c) == Running => c.server_enabled /\ server = Handle(c)
Served(prev, next, todo) ==
  /\ {"server", "start"} \cap todo # {} => ServerOf(prev)
  /\ {"restart", "restore"} \cap todo # {} => ~Running /\ prev.server_enabled
  /\ ServerSteps \cap todo = {} => ServerOf(next)

\* Without overlap one command is under way or none.
Progress ==
  ~overlapped =>
    /\ \A t, u \in Threads : Busy(t) /\ Busy(u) => t = u
    /\ \A t \in Threads : Busy(t) =>
         /\ Held(job[t].prev, job[t].next, Left(t))
         /\ ~unsaved => /\ Applied(job[t].prev, job[t].next, Left(t))
                        /\ Served(job[t].prev, job[t].next, Left(t))
    /\ (\A t \in Threads : ~Busy(t)) =>
         /\ Held(memory, memory, {})
         /\ ~unsaved => Applied(memory, memory, {}) /\ Served(memory, memory, {})

\* A probe of the configured hub is to come, is under way, or is the last.
WillProbe ==
  /\ {"memory", "source"} \cap Left("main") = {"source"}
  /\ SourceFieldsChanged(job["main"].prev, job["main"].next)
Probed ==
  ~overlapped /\ ~raced /\ memory.source_kind = "hub" /\ spawned = 0 /\ ~WillProbe =>
    /\ \A u \in Urls : BeingProbed(u) => u = memory.hub_url
    /\ probes = NoProbes => hub_status = memory.hub_url

\* A probe is spawned once per command.
SpawnsCounted ==
  /\ saves \in 0 .. MaxSaves
  /\ spawned <= saves + 1
  /\ "source" \in Left("main") => spawned <= saves

\* The types, with the plans a thread may have.
JobType == [prev : Settings, next : Settings,
            plan : {<<>>} \cup ConfigPlans \cup MenuPlans \cup PickPlans]
ServerType == [bind : Binds \cup {"none"}, token : {"none", "hash"}]
SettingsTyped ==
  /\ disk \in Settings /\ memory \in Settings /\ engine_config \in Settings
  /\ pin \in BOOLEAN /\ server \in ServerType
  /\ job \in [Threads -> JobType]
  /\ \A t \in Threads : JobFits(t)
  /\ spawned \in Nat /\ saves \in Nat /\ SpawnsCounted
  /\ probes \in [Urls -> Nat] /\ hub_status \in Urls \cup {"none"}
  /\ overlapped \in BOOLEAN /\ unsaved \in BOOLEAN /\ raced \in BOOLEAN

\* Nothing being probed is a count of probes.
LEMMA NoProbesTyped == NoProbes \in [Urls -> Nat]
BY DEF NoProbes

\* What a form is saved as is well typed.
LEMMA SanitizedTyped ==
  ASSUME NEW c \in Settings, NEW form \in Forms(c)
  PROVE  Sanitized(form) \in Settings
<1> DEFINE Raw == [always_on_top : BOOLEAN, collapse_style : {"single", "triple"},
                   source_kind : {"file", "hub", "push"},
                   state_path : Paths \cup {"none", ""}, hub_url : Urls \cup {""},
                   server_enabled : BOOLEAN, server_bind : Binds \cup {"bad", ""},
                   server_token_hash : {"none", "hash", "typed", ""}]
           state == IF form.state_path = "" THEN "none" ELSE form.state_path
           url == IF form.hub_url = "" THEN "default" ELSE form.hub_url
           bind == IF form.server_bind = "" THEN "default" ELSE form.server_bind
           token == CASE form.server_token_hash = "typed" -> "hash"
                      [] form.server_token_hash = "" -> "none"
                      [] OTHER -> form.server_token_hash
<1>0. /\ "default" \in Urls /\ "default" \in Binds /\ "" \notin Paths
  BY SettingsAssumption
<1>1. form \in Raw
  <2>1. c \in Raw
    BY DEF Settings
  <2>2. CASE \/ \E k \in {"file", "hub", "push"} : form = [c EXCEPT !.source_kind = k]
             \/ \E p \in Paths \cup {""} : form = [c EXCEPT !.state_path = p]
             \/ \E u \in Urls \cup {""} : form = [c EXCEPT !.hub_url = u]
             \/ \E b \in Binds \cup {"", "bad"} : form = [c EXCEPT !.server_bind = b]
             \/ \E t \in {"typed", ""} : form = [c EXCEPT !.server_token_hash = t]
    BY <2>1, <2>2, ZenonT(30)
  <2>3. CASE \/ form = [c EXCEPT !.always_on_top = ~c.always_on_top]
             \/ form = [c EXCEPT !.server_enabled = ~c.server_enabled]
    BY <2>1, <2>3
  <2>4. QED
    BY <2>2, <2>3 DEF Forms
<1>2. /\ state \in Paths \cup {"none"} /\ url \in Urls
      /\ bind \in Binds \cup {"bad"} /\ token \in {"none", "hash"}
  BY <1>0, <1>1
<1>3. Sanitized(form) = [form EXCEPT !.state_path = state, !.hub_url = url,
                                     !.server_bind = bind,
                                     !.server_token_hash = token]
  BY <1>1 DEF Sanitized
<1> HIDE DEF state, url, bind, token
<1>4. QED
  BY <1>1, <1>2, <1>3 DEF Settings

\* Thread t has `todo' left, if anything of the command it works through.
Moves(t, todo) ==
  /\ job' \in [Threads -> JobType]
  /\ job'[t].plan \in Plans(t) \cup {<<>>}
  /\ Todo(job'[t].plan) = todo
  /\ Busy(t)' <=> todo # {}
  /\ Busy(t)' => job'[t].prev = job[t].prev /\ job'[t].next = job[t].next
  /\ \A u \in Threads \ {t} : job'[u] = job[u]

\* The plan of a thread that is busy is in order.
LEMMA BusyInOrder ==
  ASSUME SettingsTyped, NEW t \in Threads, Busy(t)
  PROVE  job[t].plan \in Plans(t) /\ InOrder(t, job[t].plan)
<1>1. job[t].plan \in Plans(t)
  BY DEF SettingsTyped, JobFits, Busy
<1>2. QED
  BY <1>1, PlansAreInOrder

\* There is nothing left to do exactly if the plan is empty.
LEMMA NothingLeft ==
  ASSUME NEW t \in Threads, NEW plan \in Plans(t) \cup {<<>>}
  PROVE  plan = <<>> <=> Todo(plan) = {}
<1>1. plan \in Plans(t) => plan # <<>> /\ Todo(plan) # {}
  BY PlansAreInOrder DEF InOrder
<1>2. QED
  BY <1>1, TodoTuples

\* A thread goes on with a plan, or ends its command.
LEMMA ThenMoves ==
  ASSUME SettingsTyped, NEW t \in Threads, NEW plan \in Plans(t) \cup {<<>>},
         Then(t, plan)
  PROVE  Moves(t, Todo(plan))
<1> DEFINE rec == IF plan = <<>> THEN NoJob(DefaultConfig)
                                 ELSE [job[t] EXCEPT !.plan = plan]
<1>1. job \in [Threads -> JobType]
  BY DEF SettingsTyped
<1>2. plan \in {<<>>} \cup ConfigPlans \cup MenuPlans \cup PickPlans
  BY DEF Plans
<1>3. DefaultConfig \in Settings
  BY SettingsAssumption DEF DefaultConfig, Settings
<1>4. rec \in JobType /\ rec.plan = plan
  BY <1>1, <1>2, <1>3 DEF JobType, NoJob
<1>5. plan # <<>> => rec.prev = job[t].prev /\ rec.next = job[t].next
  BY <1>1 DEF JobType
<1>6. job' = [job EXCEPT ![t] = rec]
  BY <1>1 DEF Then
<1> HIDE DEF rec
<1>7. job' \in [Threads -> JobType] /\ job'[t] = rec
      /\ \A u \in Threads \ {t} : job'[u] = job[u]
  BY <1>1, <1>4, <1>6
<1>8. plan = <<>> <=> Todo(plan) = {}
  BY NothingLeft
<1>9. QED
  BY <1>4, <1>5, <1>7, <1>8 DEF Moves, Busy

\* One step is done, replaced, or the command ends.
LEMMA DoneMoves ==
  ASSUME SettingsTyped, NEW t \in Threads, NEW step, At(t, step), Done(t)
  PROVE  Moves(t, Left(t) \ {step})
<1>1. Busy(t) /\ Head(job[t].plan) = step
  BY DEF At
<1>2. InOrder(t, job[t].plan)
  BY <1>1, BusyInOrder
<1>3. /\ Tail(job[t].plan) \in Plans(t) \cup {<<>>}
      /\ Todo(Tail(job[t].plan)) = Left(t) \ {step}
  BY <1>1, <1>2 DEF InOrder, Left
<1>4. Moves(t, Todo(Tail(job[t].plan)))
  BY <1>3, ThenMoves DEF Done
<1>5. QED
  BY <1>3, <1>4

\* A step of the server is replaced by another.
LEMMA InsteadMoves ==
  ASSUME SettingsTyped, NEW t \in Threads, NEW step \in ServerSteps, At(t, step),
         NEW other \in ServerSteps, Instead(t, other)
  PROVE  Moves(t, (Left(t) \ {step}) \cup {other})
<1>1. Busy(t) /\ Head(job[t].plan) = step
  BY DEF At
<1>2. InOrder(t, job[t].plan)
  BY <1>1, BusyInOrder
<1>3. /\ <<other>> \o Tail(job[t].plan) \in Plans(t)
      /\ Todo(<<other>> \o Tail(job[t].plan)) = (Left(t) \ {step}) \cup {other}
  BY <1>1, <1>2 DEF InOrder, Left
<1>4. Moves(t, Todo(<<other>> \o Tail(job[t].plan)))
  BY <1>3, ThenMoves DEF Instead
<1>5. QED
  BY <1>3, <1>4

\* A step that fails leaves nothing to do.
LEMMA FailMoves ==
  ASSUME SettingsTyped, NEW t \in Threads, Fail(t)
  PROVE  Moves(t, {})
<1>1. Moves(t, Todo(<<>>))
  BY ThenMoves DEF Fail
<1>2. QED
  BY <1>1, TodoTuples

\* A command begins.
LEMMA BeginDoes ==
  ASSUME SettingsTyped, NEW t \in Threads, NEW next \in Settings,
         NEW plan \in Plans(t), Begin(t, next, plan)
  PROVE  /\ job' \in [Threads -> JobType]
         /\ ~Busy(t) /\ Busy(t)'
         /\ job'[t].prev = memory /\ job'[t].next = next /\ job'[t].plan = plan
         /\ \A u \in Threads \ {t} : job'[u] = job[u]
         /\ saves < MaxSaves /\ saves' = saves + 1
         /\ overlapped' \in BOOLEAN
         /\ ~overlapped' => ~overlapped /\ \A u \in Threads : ~Busy(u)
<1> DEFINE rec == [prev |-> memory, next |-> next, plan |-> plan]
<1>1. job \in [Threads -> JobType] /\ memory \in Settings /\ overlapped \in BOOLEAN
  BY DEF SettingsTyped
<1>2. plan \in {<<>>} \cup ConfigPlans \cup MenuPlans \cup PickPlans /\ plan # <<>>
  BY PlansAreInOrder DEF Plans, InOrder
<1>3. rec \in JobType /\ rec.prev = memory /\ rec.next = next /\ rec.plan = plan
  BY <1>1, <1>2 DEF JobType
<1>4. /\ job' = [job EXCEPT ![t] = rec] /\ ~Busy(t)
      /\ saves < MaxSaves /\ saves' = saves + 1
      /\ overlapped' = (overlapped \/ \E u \in Threads \ {t} : Busy(u))
  BY DEF Begin
<1> HIDE DEF rec
<1>5. job' \in [Threads -> JobType] /\ job'[t] = rec
      /\ \A u \in Threads \ {t} : job'[u] = job[u]
  BY <1>1, <1>3, <1>4
<1>6. overlapped' \in BOOLEAN
      /\ (~overlapped' => ~overlapped /\ \A u \in Threads : ~Busy(u))
  BY <1>1, <1>4
<1>7. QED
  BY <1>2, <1>3, <1>4, <1>5, <1>6 DEF Busy

\* What the settings of a command have to do with its steps stays so.
LEMMA MovesFits ==
  ASSUME SettingsTyped, NEW t \in Threads, NEW todo, Moves(t, todo), Busy(t),
         "memory" \in todo /\ "source" \notin todo
           => "memory" \in Left(t) /\ "source" \notin Left(t),
         "try save" \in todo => "try save" \in Left(t),
         {"start", "restart", "restore"} \cap todo # {} => job[t].next.server_enabled
  PROVE  \A u \in Threads : JobFits(u)'
<1>1. \A u \in Threads : JobFits(u)
  BY DEF SettingsTyped
<1>2. ASSUME NEW u \in Threads \ {t}
      PROVE  JobFits(u)'
  BY <1>1 DEF Moves, JobFits, Left, Busy
<1>3. CASE Busy(t)'
  <2>1. JobFits(t)'
    BY <1>1, <1>3 DEF Moves, JobFits, Left
  <2>2. QED
    BY <1>2, <2>1
<1>4. CASE ~Busy(t)'
  <2>1. JobFits(t)'
    BY <1>4 DEF Moves, JobFits, Left
  <2>2. QED
    BY <1>2, <2>1
<1>5. QED
  BY <1>3, <1>4

\* A spawn is one that was to come, and a command is counted before it spawns.
LEMMA CountKept ==
  ASSUME SpawnsCounted, spawned \in Nat, saves \in Nat, spawned' \in Nat,
         saves' = saves,
         "source" \in Left("main")' => "source" \in Left("main"),
         \/ spawned' = spawned
         \/ /\ spawned' = spawned + 1
            /\ "source" \in Left("main") /\ "source" \notin Left("main")'
  PROVE  SpawnsCounted'
<1>1. saves' \in 0 .. MaxSaves
  BY DEF SpawnsCounted
<1>2. spawned' <= saves + 1
  BY DEF SpawnsCounted
<1>3. "source" \in Left("main")' => spawned' <= saves
  BY DEF SpawnsCounted
<1>4. QED
  BY <1>1, <1>2, <1>3 DEF SpawnsCounted

\* The count of commands only grows, and a probe that reads the settings is no
\* longer to come.
LEMMA CountLater ==
  ASSUME SpawnsCounted, spawned \in Nat, saves \in Nat, spawned' \in Nat,
         saves' \in 0 .. MaxSaves, saves <= saves', spawned' <= spawned,
         Left("main")' = Left("main")
  PROVE  SpawnsCounted'
<1>1. MaxSaves \in Nat
  BY SettingsAssumption
<1>2. saves' \in Nat
  BY <1>1
<1>3. spawned' <= saves' + 1
  <2>1. spawned <= saves + 1
    BY DEF SpawnsCounted
  <2>2. \A a, b, c, d \in Nat : a <= b + 1 /\ c <= a /\ b <= d => c <= d + 1
    OBVIOUS
  <2>3. QED
    BY <1>2, <2>1, <2>2
<1>4. "source" \in Left("main") => spawned' <= saves'
  BY <1>2 DEF SpawnsCounted
<1>5. QED
  BY <1>3, <1>4 DEF SpawnsCounted

\* A command that begins is counted.
LEMMA CountBegun ==
  ASSUME SpawnsCounted, spawned \in Nat, saves \in Nat,
         saves < MaxSaves, saves' = saves + 1, spawned' = spawned
  PROVE  SpawnsCounted' /\ saves' \in Nat
<1>1. MaxSaves \in Nat
  BY SettingsAssumption
<1>2. saves' \in 0 .. MaxSaves /\ saves' \in Nat
  BY <1>1
<1>3. spawned <= saves + 1
  BY DEF SpawnsCounted
<1>4. QED
  BY <1>2, <1>3 DEF SpawnsCounted

\* The types but the jobs'.
OthersTyped ==
  /\ disk \in Settings /\ memory \in Settings /\ engine_config \in Settings
  /\ pin \in BOOLEAN /\ server \in ServerType
  /\ spawned \in Nat /\ saves \in Nat
  /\ probes \in [Urls -> Nat] /\ hub_status \in Urls \cup {"none"}
  /\ overlapped \in BOOLEAN /\ unsaved \in BOOLEAN /\ raced \in BOOLEAN

\* A step of a command keeps the types if it keeps those of the rest.
LEMMA MovesTyped ==
  ASSUME SettingsTyped, NEW t \in Threads, NEW todo, Moves(t, todo), Busy(t),
         "memory" \in todo /\ "source" \notin todo
           => "memory" \in Left(t) /\ "source" \notin Left(t),
         "try save" \in todo => "try save" \in Left(t),
         {"start", "restart", "restore"} \cap todo # {} => job[t].next.server_enabled,
         "source" \in todo => "source" \in Left(t),
         OthersTyped', saves' = saves,
         \/ spawned' = spawned
         \/ /\ spawned' = spawned + 1 /\ t = "main"
            /\ "source" \in Left(t) \ todo
  PROVE  SettingsTyped'
<1>1. \A u \in Threads : JobFits(u)'
  BY MovesFits
<1>2. job' \in [Threads -> JobType]
  BY DEF Moves
<1>3. Left("main")' = IF t = "main" THEN todo ELSE Left("main")
  BY DEF Moves, Left, Threads
<1>4. SpawnsCounted'
  <2>1. /\ spawned \in Nat /\ saves \in Nat /\ SpawnsCounted
        /\ spawned' \in Nat /\ saves' \in Nat
    BY DEF SettingsTyped, OthersTyped
  <2>2. "source" \in Left("main")' => "source" \in Left("main")
    BY <1>3
  <2>3. spawned' # spawned => "source" \in Left("main") /\ "source" \notin Left("main")'
    BY <1>3
  <2>4. QED
    BY <2>1, <2>2, <2>3, CountKept
<1>5. QED
  BY <1>1, <1>2, <1>4 DEF SettingsTyped, OthersTyped

\* A command that begins keeps them.
LEMMA BeginTyped ==
  ASSUME SettingsTyped, NEW t \in Threads, NEW next \in Settings,
         NEW plan \in Plans(t), Begin(t, next, plan),
         t = "main" => \/ "source" \in Todo(plan)
                       \/ ~SourceFieldsChanged(memory, next),
         t # "main" => ~ServerFieldsChanged(memory, next) /\ next.source_kind = "file",
         "try save" \in Todo(plan) => next.server_enabled = memory.server_enabled,
         {"start", "restart", "restore"} \cap Todo(plan) = {},
         pin' \in BOOLEAN,
         UNCHANGED <<disk, memory, engine_config, engine_source, server, spawned,
                     probes, hub_status, runs, unsaved, raced>>
  PROVE  SettingsTyped'
<1>1. /\ job' \in [Threads -> JobType]
      /\ ~Busy(t) /\ Busy(t)'
      /\ job'[t].prev = memory /\ job'[t].next = next /\ job'[t].plan = plan
      /\ \A u \in Threads \ {t} : job'[u] = job[u]
      /\ saves < MaxSaves /\ saves' = saves + 1
      /\ overlapped' \in BOOLEAN
  BY BeginDoes
<1>2. JobFits(t)'
  BY <1>1 DEF JobFits, Left
<1>3. \A u \in Threads \ {t} : JobFits(u)'
  BY <1>1, ZenonT(30) DEF SettingsTyped, JobFits, Left, Busy
<1>4. SpawnsCounted' /\ saves' \in Nat
  <2>1. spawned \in Nat /\ saves \in Nat /\ SpawnsCounted /\ spawned' = spawned
    BY DEF SettingsTyped
  <2>2. QED
    BY <1>1, <2>1, CountBegun
<1>5. UNCHANGED <<disk, memory, engine_config, server, spawned, probes, hub_status,
                  unsaved, raced>>
  OBVIOUS
<1>6. \A u \in Threads : JobFits(u)'
  BY <1>2, <1>3
<1>7. QED
  BY <1>1, <1>4, <1>5, <1>6, Zenon DEF SettingsTyped

\* What a thread's step finds.
LEMMA AtStep ==
  ASSUME SettingsTyped, NEW t \in Threads, NEW step, At(t, step)
  PROVE  /\ Busy(t) /\ step \in Left(t) /\ InOrder(t, job[t].plan)
         /\ Head(job[t].plan) = step
         /\ job[t].prev \in Settings /\ job[t].next \in Settings
         /\ JobFits(t)
<1>1. Busy(t) /\ Head(job[t].plan) = step
  BY DEF At
<1>2. InOrder(t, job[t].plan)
  BY <1>1, BusyInOrder
<1>3. job[t] \in JobType /\ JobFits(t)
  BY DEF SettingsTyped
<1>4. QED
  BY <1>1, <1>2, <1>3 DEF InOrder, Left, JobType

\* What is left of a command at a server step, and at a save.
LEMMA ServerStepLeft ==
  ASSUME SettingsTyped, NEW t \in Threads, NEW step \in ServerSteps, At(t, step)
  PROVE  /\ Busy(t) /\ step \in Left(t) /\ Left(t) \cap ServerSteps = {step}
         /\ t = "main" => /\ Left(t) \cap SaveSteps # {}
                          /\ {"memory", "engine", "source"} \subseteq Left(t)
         /\ t # "main" => Left(t) = {step}
<1>1. PICK plan : plan = job[t].plan
  OBVIOUS
<1>2. InOrder(t, plan) /\ Head(plan) = step /\ Todo(plan) = Left(t) /\ Busy(t)
  BY <1>1, AtStep DEF Left
<1>3. QED
  BY <1>2, Zenon DEF InOrder

LEMMA SaveStepLeft ==
  ASSUME SettingsTyped, NEW t \in Threads, NEW step \in SaveSteps, At(t, step)
  PROVE  /\ Busy(t) /\ step \in Left(t) /\ JobFits(t)
         /\ Left(t) \cap SaveSteps = {step} /\ "memory" \in Left(t)
         /\ t = "main" => Left(t) \cap ServerSteps = {}
<1>1. PICK plan : plan = job[t].plan
  OBVIOUS
<1>2. InOrder(t, plan) /\ Head(plan) = step /\ Todo(plan) = Left(t) /\ Busy(t)
      /\ JobFits(t)
  BY <1>1, AtStep DEF Left
<1>3. QED
  BY <1>2, Zenon DEF InOrder

\* Settings describe a server.
LEMMA HandleTyped ==
  /\ NoServer \in ServerType
  /\ \A c \in Settings : /\ c.server_bind # "bad" => Handle(c) \in ServerType
                         /\ Handle(c).bind = c.server_bind
                         /\ Handle(c).token = c.server_token_hash
                         /\ c.server_bind # "bad" => Handle(c) # NoServer
BY SettingsAssumption DEF NoServer, ServerType, Handle, Settings

\* The plans that commands begin with.
LEMMA FirstPlans ==
  /\ <<"server", "save", "memory", "engine", "source">> \in Plans("main")
  /\ <<"save", "memory", "engine">> \in Plans("main")
  /\ <<"try save", "memory", "engine">> \in Plans("main")
  /\ <<"save", "memory", "engine", "source", "server">> \in Plans("worker")
  /\ Todo(<<"server", "save", "memory", "engine", "source">>)
       = {"server", "save", "memory", "engine", "source"}
  /\ Todo(<<"save", "memory", "engine">>) = {"save", "memory", "engine"}
  /\ Todo(<<"try save", "memory", "engine">>) = {"try save", "memory", "engine"}
  /\ Todo(<<"save", "memory", "engine", "source", "server">>)
       = {"save", "memory", "engine", "source", "server"}
<1>1. /\ <<"server", "save", "memory", "engine", "source">> \in Plans("main")
      /\ <<"save", "memory", "engine">> \in Plans("main")
      /\ <<"try save", "memory", "engine">> \in Plans("main")
  BY DEF Plans, ConfigPlans, MenuPlans, ServerSteps, SaveSteps
<1>2. <<"save", "memory", "engine", "source", "server">> \in Plans("worker")
  BY DEF Plans, PickPlans
<1>3. Todo(<<"server", "save", "memory", "engine", "source">>)
        = {"server", "save", "memory", "engine", "source"}
  BY TodoTuples
<1>4. \A a, b, c : Todo(<<a, b, c>>) = {a, b, c}
  BY TodoTuples, Zenon
<1>5. Todo(<<"save", "memory", "engine", "source", "server">>)
        = {"save", "memory", "engine", "source", "server"}
  BY TodoTuples
<1>6. QED
  BY <1>1, <1>2, <1>3, <1>4, <1>5, Zenon

\* set_config begins with settings that are well typed.
LEMMA SetConfigBegins ==
  ASSUME SettingsTyped, SetConfig
  PROVE  \E next \in Settings :
           Begin("main", next, <<"server", "save", "memory", "engine", "source">>)
<1>1. memory \in Settings
  BY DEF SettingsTyped
<1>2. PICK form \in Forms(memory) :
        Begin("main", Sanitized(form),
              <<"server", "save", "memory", "engine", "source">>)
  BY DEF SetConfig
<1>3. QED
  BY <1>1, <1>2, SanitizedTyped

\* The other commands change one field or two.
LEMMA OtherCommandsBegin ==
  ASSUME SettingsTyped
  PROVE  /\ PickStateFile => \E next \in Settings :
              /\ Begin("worker", next,
                       <<"save", "memory", "engine", "source", "server">>)
              /\ ~ServerFieldsChanged(memory, next) /\ next.source_kind = "file"
              /\ next.always_on_top = memory.always_on_top
         /\ ApplyAlwaysOnTop => \E next \in Settings :
              /\ Begin("main", next, <<"save", "memory", "engine">>)
              /\ ~ServerFieldsChanged(memory, next)
              /\ ~SourceFieldsChanged(memory, next)
              /\ next.always_on_top = ~memory.always_on_top
         /\ SetCollapseStyle => \E next \in Settings :
              /\ Begin("main", next, <<"try save", "memory", "engine">>)
              /\ ~ServerFieldsChanged(memory, next)
              /\ ~SourceFieldsChanged(memory, next)
              /\ next.always_on_top = memory.always_on_top
<1>1. memory \in Settings
  BY DEF SettingsTyped
<1>2. ASSUME PickStateFile
      PROVE  \E next \in Settings :
               /\ Begin("worker", next,
                        <<"save", "memory", "engine", "source", "server">>)
               /\ ~ServerFieldsChanged(memory, next) /\ next.source_kind = "file"
               /\ next.always_on_top = memory.always_on_top
  <2>1. PICK p \in Paths :
          Begin("worker", [memory EXCEPT !.state_path = p, !.source_kind = "file"],
                <<"save", "memory", "engine", "source", "server">>)
    BY <1>2 DEF PickStateFile
  <2> DEFINE next == [memory EXCEPT !.state_path = p, !.source_kind = "file"]
  <2>2. /\ next \in Settings /\ next.source_kind = "file"
        /\ next.always_on_top = memory.always_on_top
        /\ ~ServerFieldsChanged(memory, next)
    BY <1>1 DEF Settings, ServerFieldsChanged
  <2>3. QED
    BY <2>1, <2>2
<1>3. ASSUME ApplyAlwaysOnTop
      PROVE  \E next \in Settings :
               /\ Begin("main", next, <<"save", "memory", "engine">>)
               /\ ~ServerFieldsChanged(memory, next)
               /\ ~SourceFieldsChanged(memory, next)
               /\ next.always_on_top = ~memory.always_on_top
  <2> DEFINE next == [memory EXCEPT !.always_on_top = ~memory.always_on_top]
  <2>1. /\ next \in Settings
        /\ next.always_on_top = ~memory.always_on_top
        /\ ~ServerFieldsChanged(memory, next) /\ ~SourceFieldsChanged(memory, next)
    BY <1>1 DEF Settings, ServerFieldsChanged, SourceFieldsChanged
  <2>2. Begin("main", next, <<"save", "memory", "engine">>)
    BY <1>3 DEF ApplyAlwaysOnTop
  <2>3. QED
    BY <2>1, <2>2
<1>4. ASSUME SetCollapseStyle
      PROVE  \E next \in Settings :
               /\ Begin("main", next, <<"try save", "memory", "engine">>)
               /\ ~ServerFieldsChanged(memory, next)
               /\ ~SourceFieldsChanged(memory, next)
               /\ next.always_on_top = memory.always_on_top
  <2>1. PICK style \in {"single", "triple"} :
          Begin("main", [memory EXCEPT !.collapse_style = style],
                <<"try save", "memory", "engine">>)
    BY <1>4 DEF SetCollapseStyle
  <2> DEFINE next == [memory EXCEPT !.collapse_style = style]
  <2>2. /\ next \in Settings
        /\ next.always_on_top = memory.always_on_top
        /\ ~ServerFieldsChanged(memory, next) /\ ~SourceFieldsChanged(memory, next)
    BY <1>1 DEF Settings, ServerFieldsChanged, SourceFieldsChanged
  <2>3. QED
    BY <2>1, <2>2
<1>5. QED
  BY <1>2, <1>3, <1>4

\* A step that is done, or that ends the command, keeps the types.
LEMMA DoneTyped ==
  ASSUME SettingsTyped, NEW t \in Threads, NEW step, At(t, step), Done(t),
         OthersTyped', saves' = saves,
         \/ spawned' = spawned
         \/ spawned' = spawned + 1 /\ t = "main" /\ step = "source"
  PROVE  SettingsTyped'
<1>1. Moves(t, Left(t) \ {step})
  BY DoneMoves
<1>2. /\ Busy(t) /\ step \in Left(t) /\ JobFits(t)
      /\ step = "source" => "memory" \notin Left(t)
  BY AtStep DEF InOrder, Left
<1>3. {"start", "restart", "restore"} \cap (Left(t) \ {step}) # {}
        => job[t].next.server_enabled
  BY <1>2 DEF JobFits
<1>4. "memory" \in Left(t) \ {step} /\ "source" \notin Left(t) \ {step}
        => "memory" \in Left(t) /\ "source" \notin Left(t)
  BY <1>2
<1>5. QED
  BY <1>1, <1>2, <1>3, <1>4, MovesTyped

\* A step that fails keeps the types.
LEMMA FailTyped ==
  ASSUME SettingsTyped, NEW t \in Threads, NEW step, At(t, step), Fail(t),
         OthersTyped', saves' = saves, spawned' = spawned
  PROVE  SettingsTyped'
<1>1. Moves(t, {}) /\ Busy(t)
  BY FailMoves DEF At
<1>2. QED
  BY <1>1, MovesTyped

\* So does one that is replaced by another.
LEMMA InsteadTyped ==
  ASSUME SettingsTyped, NEW t \in Threads, NEW step \in ServerSteps, At(t, step),
         NEW other \in ServerSteps, Instead(t, other), job[t].next.server_enabled,
         OthersTyped', saves' = saves, spawned' = spawned
  PROVE  SettingsTyped'
<1>1. Moves(t, (Left(t) \ {step}) \cup {other})
  BY InsteadMoves
<1>2. Busy(t)
  BY DEF At
<1>3. other \notin {"memory", "source", "try save"}
      /\ step \notin {"memory", "source", "try save"}
  BY DEF ServerSteps
<1>4. /\ "memory" \in (Left(t) \ {step}) \cup {other} <=> "memory" \in Left(t)
      /\ "source" \in (Left(t) \ {step}) \cup {other} <=> "source" \in Left(t)
      /\ "try save" \in (Left(t) \ {step}) \cup {other} <=> "try save" \in Left(t)
  BY <1>3
<1>5. QED
  BY <1>1, <1>2, <1>4, MovesTyped

\* Nobody has anything to do when the program starts.
LEMMA NoJobsTyped ==
  /\ NoJobs \in [Threads -> JobType]
  /\ \A t \in Threads : NoJobs[t].plan = <<>>
  /\ Todo(<<>>) = {}
<1>1. DefaultConfig \in Settings
  BY SettingsAssumption DEF DefaultConfig, Settings
<1>2. QED
  BY <1>1, TodoTuples DEF NoJobs, NoJob, JobType

\* Every step keeps the types.
LEMMA SettingsTypedStep ==
  SettingsTyped /\ [SettingsNext]_shellVars => SettingsTyped'
<1> SUFFICES ASSUME SettingsTyped, [SettingsNext]_shellVars
             PROVE  SettingsTyped'
  OBVIOUS
<1>0. OthersTyped /\ "main" \in Threads /\ "worker" \in Threads
  BY DEF SettingsTyped, OthersTyped, Threads
<1>1. CASE SetConfig
  <2>1. PICK next \in Settings :
          Begin("main", next, <<"server", "save", "memory", "engine", "source">>)
    BY <1>1, SetConfigBegins
  <2>2. UNCHANGED <<disk, memory, engine_config, engine_source, pin, server,
                    spawned, probes, hub_status, runs, unsaved, raced>>
    BY <1>1 DEF SetConfig
  <2>3. pin' \in BOOLEAN
    BY <1>0, <2>2, Zenon DEF OthersTyped
  <2>4. QED
    BY <1>0, <2>1, <2>2, <2>3, FirstPlans, BeginTyped
<1>2. CASE PickStateFile
  <2>1. PICK next \in Settings :
          /\ Begin("worker", next, <<"save", "memory", "engine", "source", "server">>)
          /\ ~ServerFieldsChanged(memory, next) /\ next.source_kind = "file"
    BY <1>2, OtherCommandsBegin
  <2>2. UNCHANGED <<disk, memory, engine_config, engine_source, pin, server,
                    spawned, probes, hub_status, runs, unsaved, raced>>
    BY <1>2 DEF PickStateFile
  <2>3. pin' \in BOOLEAN
    BY <1>0, <2>2, Zenon DEF OthersTyped
  <2>4. QED
    BY <1>0, <2>1, <2>2, <2>3, FirstPlans, BeginTyped
<1>3. CASE ApplyAlwaysOnTop
  <2>1. PICK next \in Settings :
          /\ Begin("main", next, <<"save", "memory", "engine">>)
          /\ ~SourceFieldsChanged(memory, next)
    BY <1>3, OtherCommandsBegin
  <2>2. UNCHANGED <<disk, memory, engine_config, engine_source, server,
                    spawned, probes, hub_status, runs, unsaved, raced>>
    BY <1>3 DEF ApplyAlwaysOnTop
  <2>3. pin' \in BOOLEAN
    BY <1>3 DEF ApplyAlwaysOnTop
  <2>4. QED
    BY <1>0, <2>1, <2>2, <2>3, FirstPlans, BeginTyped
<1>4. CASE SetCollapseStyle
  <2>1. PICK next \in Settings :
          /\ Begin("main", next, <<"try save", "memory", "engine">>)
          /\ ~ServerFieldsChanged(memory, next) /\ ~SourceFieldsChanged(memory, next)
    BY <1>4, OtherCommandsBegin
  <2>2. UNCHANGED <<disk, memory, engine_config, engine_source, pin, server,
                    spawned, probes, hub_status, runs, unsaved, raced>>
    BY <1>4 DEF SetCollapseStyle
  <2>3. pin' \in BOOLEAN
    BY <1>0, <2>2, Zenon DEF OthersTyped
  <2>4. next.server_enabled = memory.server_enabled
    BY <2>1 DEF ServerFieldsChanged
  <2>5. QED
    BY <1>0, <2>1, <2>2, <2>3, <2>4, FirstPlans, BeginTyped
<1>5. ASSUME NEW t \in Threads, Save(t)
      PROVE  SettingsTyped'
  <2>1. At(t, "save") /\ (Done(t) \/ Fail(t))
    BY <1>5 DEF Save
  <2>2. /\ UNCHANGED <<memory, engine_config, pin, server, spawned, probes,
                       hub_status, saves, overlapped, raced>>
        /\ disk' \in {disk, job[t].next} /\ unsaved' \in {unsaved, TRUE}
    BY <1>5, Zenon DEF Save
  <2>3. OthersTyped'
    BY <1>0, <2>1, <2>2, AtStep, Zenon DEF OthersTyped
  <2>4. QED
    BY <2>1, <2>2, <2>3, DoneTyped, FailTyped
<1>6. ASSUME NEW t \in Threads, TrySave(t)
      PROVE  SettingsTyped'
  <2>1. At(t, "try save") /\ Done(t)
    BY <1>6 DEF TrySave
  <2>2. /\ UNCHANGED <<memory, engine_config, pin, server, spawned, probes,
                       hub_status, saves, overlapped, raced>>
        /\ disk' \in {disk, job[t].next} /\ unsaved' \in {unsaved, TRUE}
    BY <1>6, Zenon DEF TrySave
  <2>3. OthersTyped'
    BY <1>0, <2>1, <2>2, AtStep, Zenon DEF OthersTyped
  <2>4. QED
    BY <2>1, <2>2, <2>3, DoneTyped
<1>7. ASSUME NEW t \in Threads, SetMemory(t)
      PROVE  SettingsTyped'
  <2>1. At(t, "memory") /\ Done(t)
    BY <1>7 DEF SetMemory
  <2>2. /\ UNCHANGED <<disk, engine_config, server, spawned, probes,
                       hub_status, saves, overlapped, unsaved, raced>>
        /\ memory' = job[t].next
        /\ pin' \in {pin, job[t].next.always_on_top}
    BY <1>7, Zenon DEF SetMemory
  <2>3. job[t].next \in Settings /\ job[t].next.always_on_top \in BOOLEAN
    BY <2>1, AtStep DEF Settings
  <2>4. OthersTyped'
    BY <1>0, <2>1, <2>2, <2>3, Zenon DEF OthersTyped
  <2>5. QED
    BY <2>1, <2>2, <2>4, DoneTyped
<1>8. ASSUME NEW t \in Threads, SetEngine(t)
      PROVE  SettingsTyped'
  <2>1. At(t, "engine") /\ Done(t)
    BY <1>8 DEF SetEngine
  <2>2. /\ UNCHANGED <<disk, memory, pin, server, spawned, probes,
                       hub_status, saves, overlapped, unsaved, raced>>
        /\ engine_config' = job[t].next
    BY <1>8, Zenon DEF SetEngine
  <2>3. OthersTyped'
    BY <1>0, <2>1, <2>2, AtStep, Zenon DEF OthersTyped
  <2>4. QED
    BY <2>1, <2>2, <2>3, DoneTyped
<1>9. ASSUME NEW t \in Threads, RestartSource(t)
      PROVE  SettingsTyped'
  <2>1. At(t, "source") /\ Done(t)
    BY <1>9 DEF RestartSource
  <2>2. /\ UNCHANGED <<disk, memory, engine_config, pin, server, probes,
                       hub_status, saves, overlapped, unsaved, raced>>
        /\ spawned' = spawned \/ (spawned' = spawned + 1 /\ t = "main")
    BY <1>9, Zenon DEF RestartSource
  <2>3. spawned' \in Nat
    BY <1>0, <2>2 DEF OthersTyped
  <2>4. OthersTyped'
    BY <1>0, <2>2, <2>3, Zenon DEF OthersTyped
  <2>5. QED
    BY <2>1, <2>2, <2>4, DoneTyped
<1>10. ASSUME NEW t \in Threads, ApplyServerChange(t)
       PROVE  SettingsTyped'
  <2>1. /\ At(t, "server") /\ server' \in {server, NoServer}
        /\ \/ Done(t)
           \/ /\ job[t].next.server_enabled
              /\ Instead(t, "restart") \/ Instead(t, "start")
    BY <1>10, Zenon DEF ApplyServerChange
  <2>2. UNCHANGED <<disk, memory, engine_config, pin, spawned, probes,
                    hub_status, saves, overlapped, unsaved, raced>>
    BY <1>10, Zenon DEF ApplyServerChange, serverOnly
  <2>3. OthersTyped'
    BY <1>0, <2>1, <2>2, HandleTyped, Zenon DEF OthersTyped
  <2>4. {"server", "start", "restart"} \subseteq ServerSteps
    BY DEF ServerSteps
  <2>5. QED
    BY <2>1, <2>2, <2>3, <2>4, DoneTyped, InsteadTyped
<1>11. ASSUME NEW t \in Threads,
              StartServer(t) \/ RestartServer(t) \/ RestoreServer(t)
       PROVE  SettingsTyped'
  <2>1. UNCHANGED <<disk, memory, engine_config, pin, spawned, probes,
                    hub_status, saves, overlapped, unsaved, raced>>
    BY <1>11, Zenon DEF StartServer, RestartServer, RestoreServer, serverOnly
  <2>2. PICK step \in {"start", "restart", "restore"} :
          /\ At(t, step)
          /\ \/ server' = server
             \/ CanBind(job[t].next) /\ server' = Handle(job[t].next)
             \/ CanBind(job[t].prev) /\ server' = Handle(job[t].prev)
          /\ Done(t) \/ Fail(t) \/ (step = "restart" /\ Instead(t, "restore"))
    BY <1>11, Zenon DEF StartServer, RestartServer, RestoreServer
  <2>3. /\ job[t].prev \in Settings /\ job[t].next \in Settings
        /\ step \in Left(t) /\ JobFits(t)
    BY <2>2, AtStep
  <2>4. server' \in ServerType
    BY <1>0, <2>2, <2>3, HandleTyped DEF CanBind, OthersTyped
  <2>5. OthersTyped'
    BY <1>0, <2>1, <2>4, Zenon DEF OthersTyped
  <2>6. job[t].next.server_enabled
    BY <2>3 DEF JobFits
  <2>7. {"start", "restart", "restore"} \subseteq ServerSteps
    BY DEF ServerSteps
  <2>8. QED
    BY <2>1, <2>2, <2>5, <2>6, <2>7, DoneTyped, FailTyped, InsteadTyped
<1>12. CASE RefreshHubStatus \/ GetHubStatus \/ ProbeHub
  <2>1. /\ UNCHANGED <<disk, memory, engine_config, pin, server, job, overlapped,
                       unsaved>>
        /\ spawned' = spawned \/ (spawned > 0 /\ spawned' = spawned - 1)
        /\ saves' = saves \/ (saves < MaxSaves /\ saves' = saves + 1)
    BY <1>12, Zenon DEF RefreshHubStatus, GetHubStatus, ProbeHub, probeOnly
  <2>2. probes' \in [Urls -> Nat] /\ hub_status' \in Urls \cup {"none"}
    <3>1. memory.hub_url \in Urls
      BY <1>0 DEF OthersTyped, Settings
    <3>2. CASE RefreshHubStatus
      BY <1>0, <3>1, <3>2 DEF RefreshHubStatus, Probing, OthersTyped
    <3>3. CASE GetHubStatus
      BY <1>0, <3>3 DEF GetHubStatus, Probing, OthersTyped
    <3>4. CASE ProbeHub
      <4>1. PICK u \in Urls : /\ BeingProbed(u) /\ hub_status' = u
                             /\ probes' = [probes EXCEPT ![u] = @ - 1]
        BY <3>4 DEF ProbeHub
      <4>2. probes[u] \in Nat /\ probes[u] # 0
        BY <1>0, <4>1 DEF BeingProbed, OthersTyped
      <4>3. probes[u] - 1 \in Nat
        BY <4>2
      <4>4. QED
        BY <1>0, <4>1, <4>3 DEF OthersTyped
    <3>5. QED
      BY <1>12, <3>2, <3>3, <3>4
  <2>3. raced' \in BOOLEAN
    <3>1. raced' = raced \/ \E u \in Urls :
            raced' = (u # memory.hub_url \/ \E v \in Urls \ {u} : BeingProbed(v))
      <4>1. memory.hub_url \in Urls
        BY <1>0 DEF OthersTyped, Settings
      <4>2. QED
        BY <1>12, <4>1, Zenon DEF RefreshHubStatus, GetHubStatus, ProbeHub, Probing
    <3>2. QED
      BY <1>0, <3>1 DEF OthersTyped
  <2>4. /\ spawned' \in Nat /\ spawned' <= spawned
        /\ saves' \in 0 .. MaxSaves /\ saves <= saves'
    <3>1. spawned \in Nat /\ saves \in 0 .. MaxSaves /\ MaxSaves \in Nat
      BY SettingsAssumption, Zenon DEF SettingsTyped, SpawnsCounted
    <3>2. /\ spawned' = spawned \/ (spawned > 0 /\ spawned' = spawned - 1)
          /\ saves' = saves \/ (saves < MaxSaves /\ saves' = saves + 1)
      BY <2>1
    <3>3. QED
      BY <3>1, <3>2
  <2>5. \A t \in Threads : JobFits(t)'
    BY <2>1 DEF SettingsTyped, JobFits, Left, Busy
  <2>6. job' \in [Threads -> JobType]
    BY <2>1 DEF SettingsTyped
  <2>7. SpawnsCounted'
    <3>1. Left("main")' = Left("main")
      BY <2>1 DEF Left
    <3>2. SpawnsCounted /\ spawned \in Nat /\ saves \in Nat
      BY DEF SettingsTyped
    <3>3. QED
      BY <2>4, <3>1, <3>2, CountLater
  <2>8. saves' \in Nat
    BY <2>4
  <2>9. QED
    BY <1>0, <2>1, <2>2, <2>3, <2>4, <2>5, <2>6, <2>7, <2>8, Zenon
       DEF OthersTyped, SettingsTyped
<1>13. CASE Relaunch
  <2>1. /\ memory' = disk /\ engine_config' = disk /\ disk' = disk
        /\ pin' = disk.always_on_top
        /\ server' \in LaunchedServers(disk)
        /\ job' = NoJobs /\ spawned' \in {0, 1} /\ probes' = NoProbes
        /\ hub_status' = "none" /\ saves' = saves
        /\ overlapped' = FALSE /\ unsaved' = FALSE /\ raced' = FALSE
    BY <1>13 DEF Relaunch
  <2>2. pin' \in BOOLEAN /\ disk \in Settings
    BY <1>0, <2>1 DEF OthersTyped, Settings
  <2>3. server' \in ServerType
    BY <2>1, <2>2, HandleTyped DEF LaunchedServers
  <2>4. /\ job' \in [Threads -> JobType]
        /\ \A t \in Threads : JobFits(t)' /\ Left(t)' = {}
    BY <2>1, NoJobsTyped DEF JobFits, Left, Busy
  <2>5. spawned' \in Nat
    BY <2>1
  <2>6. SpawnsCounted' /\ saves' \in Nat
    <3>1. saves \in Nat /\ saves \in 0 .. MaxSaves
      BY DEF SettingsTyped, SpawnsCounted
    <3>2. saves' \in Nat /\ saves' \in 0 .. MaxSaves /\ spawned' <= saves' + 1
      BY <2>1, <3>1
    <3>3. "source" \notin Left("main")'
      BY <1>0, <2>4
    <3>4. QED
      BY <3>2, <3>3 DEF SpawnsCounted
  <2>7. QED
    BY <1>0, <2>1, <2>2, <2>3, <2>4, <2>5, <2>6, NoProbesTyped, Zenon
       DEF OthersTyped, SettingsTyped
<1>14. CASE UNCHANGED shellVars
  BY <1>14 DEF shellVars, SettingsTyped, JobFits, Left, Busy, SpawnsCounted
<1>15. QED
  BY <1>1, <1>2, <1>3, <1>4, <1>5, <1>6, <1>7, <1>8, <1>9, <1>10, <1>11, <1>12,
     <1>13, <1>14 DEF SettingsNext

\* What is known of the command of a thread that is busy.
LEMMA BusyProgress ==
  ASSUME Progress, ~overlapped, NEW t \in Threads, Busy(t)
  PROVE  /\ \A u \in Threads \ {t} : ~Busy(u)
         /\ Held(job[t].prev, job[t].next, Left(t))
         /\ ~unsaved => /\ Applied(job[t].prev, job[t].next, Left(t))
                        /\ Served(job[t].prev, job[t].next, Left(t))
BY DEF Progress

\* A command that goes on keeps what is known, and so does one that comes to
\* its end: the settings in memory are the new ones then.
LEMMA ProgressOn ==
  ASSUME SettingsTyped, Progress, NEW t \in Threads, Busy(t),
         NEW prev, prev = job[t].prev, NEW next, next = job[t].next,
         NEW todo, Moves(t, todo), overlapped' = overlapped,
         ~overlapped => Held(prev, next, todo)',
         ~overlapped /\ ~unsaved' =>
           Applied(prev, next, todo)' /\ Served(prev, next, todo)'
  PROVE  Progress'
<1> SUFFICES ASSUME ~overlapped
             PROVE  Progress'
  BY DEF Progress
<1>1. \A u \in Threads \ {t} : ~Busy(u)
  BY BusyProgress
<1>2. \A u \in Threads \ {t} : ~Busy(u)'
  BY <1>1 DEF Moves, Busy
<1>3. CASE todo # {}
  <2>1. Busy(t)' /\ job'[t].prev = prev /\ job'[t].next = next /\ Left(t)' = todo
    BY <1>3 DEF Moves, Left
  <2>2. Held(job[t].prev, job[t].next, Left(t))'
    BY <2>1 DEF Held
  <2>3. ~unsaved' => Applied(job[t].prev, job[t].next, Left(t))'
    BY <2>1 DEF Applied
  <2>4. ~unsaved' => Served(job[t].prev, job[t].next, Left(t))'
    BY <2>1 DEF Served, ServerOf
  <2>5. QED
    BY <1>2, <2>1, <2>2, <2>3, <2>4 DEF Progress
<1>4. CASE todo = {}
  <2>1. ~Busy(t)'
    BY <1>4 DEF Moves
  <2>2. memory' = next
    BY <1>4 DEF Held
  <2>3. Held(memory, memory, {})'
    BY <1>4, <2>2 DEF Held
  <2>4. ~unsaved' => Applied(memory, memory, {})'
    BY <1>4, <2>2 DEF Applied
  <2>5. ~unsaved' => Served(memory, memory, {})'
    BY <1>4, <2>2 DEF Served, ServerOf
  <2>6. QED
    BY <1>2, <2>1, <2>3, <2>4, <2>5 DEF Progress
<1>5. QED
  BY <1>3, <1>4

\* A command that fails must leave everything in agreement.
LEMMA ProgressEnds ==
  ASSUME SettingsTyped, Progress, NEW t \in Threads, Busy(t), Moves(t, {}),
         overlapped' = overlapped,
         ~overlapped => Held(memory, memory, {})',
         ~overlapped /\ ~unsaved' =>
           Applied(memory, memory, {})' /\ Served(memory, memory, {})'
  PROVE  Progress'
<1> SUFFICES ASSUME ~overlapped
             PROVE  Progress'
  BY DEF Progress
<1>1. \A u \in Threads \ {t} : ~Busy(u)
  BY BusyProgress
<1>2. \A u \in Threads : ~Busy(u)'
  BY <1>1 DEF Moves, Busy
<1>3. QED
  BY <1>2 DEF Progress

\* A command that begins finds everything in agreement.
LEMMA ProgressBegins ==
  ASSUME SettingsTyped, Progress, NEW t \in Threads, NEW next \in Settings,
         NEW plan \in Plans(t), Begin(t, next, plan),
         UNCHANGED <<disk, memory, engine_config, engine_source, server, unsaved>>,
         NEW old, old = memory,
         Held(memory, memory, {}) => Held(old, next, Todo(plan))',
         Applied(memory, memory, {}) => Applied(old, next, Todo(plan))',
         Served(memory, memory, {}) => Served(old, next, Todo(plan))'
  PROVE  Progress'
<1> SUFFICES ASSUME ~overlapped'
             PROVE  Progress'
  BY DEF Progress
<1>1. /\ Busy(t)' /\ job'[t].prev = memory /\ job'[t].next = next
      /\ job'[t].plan = plan
      /\ \A u \in Threads \ {t} : job'[u] = job[u]
      /\ ~overlapped /\ \A u \in Threads : ~Busy(u)
  BY BeginDoes
<1>2. \A u \in Threads \ {t} : ~Busy(u)'
  BY <1>1 DEF Busy
<1>3. Left(t)' = Todo(plan)
  BY <1>1 DEF Left
<1>4. Held(memory, memory, {})
      /\ (~unsaved => Applied(memory, memory, {}) /\ Served(memory, memory, {}))
  BY <1>1 DEF Progress
<1>5. Held(job[t].prev, job[t].next, Left(t))'
  BY <1>1, <1>3, <1>4 DEF Held
<1>6. ~unsaved' => Applied(job[t].prev, job[t].next, Left(t))'
  BY <1>1, <1>3, <1>4 DEF Applied
<1>7. ~unsaved' => Served(job[t].prev, job[t].next, Left(t))'
  BY <1>1, <1>3, <1>4 DEF Served, ServerOf
<1>8. QED
  BY <1>1, <1>2, <1>5, <1>6, <1>7 DEF Progress

\* What a step of a command finds while no two commands overlap.
LEMMA AtProgress ==
  ASSUME SettingsTyped, Progress, NEW t \in Threads, NEW step, At(t, step)
  PROVE  /\ ~overlapped => Held(job[t].prev, job[t].next, Left(t))
         /\ ~overlapped /\ ~unsaved =>
              /\ Applied(job[t].prev, job[t].next, Left(t))
              /\ Served(job[t].prev, job[t].next, Left(t))
BY BusyProgress DEF At

\* Saving: the file has the new settings, or nothing has changed.
LEMMA SaveProgress ==
  ASSUME SettingsTyped, Progress, NEW t \in Threads, Save(t) \/ TrySave(t)
  PROVE  Progress'
<1>0. PICK prev, next, todo :
        prev = job[t].prev /\ next = job[t].next /\ todo = Left(t)
  OBVIOUS
<1>1. PICK step \in SaveSteps :
        /\ At(t, step)
        /\ \/ disk' = next /\ Done(t) /\ UNCHANGED unsaved
           \/ step = "try save" /\ unsaved' = TRUE /\ UNCHANGED disk /\ Done(t)
           \/ step = "save" /\ unsaved' = TRUE /\ UNCHANGED disk /\ Fail(t)
  BY <1>0, Zenon DEF Save, TrySave, SaveSteps
<1>2. UNCHANGED <<memory, engine_config, engine_source, pin, server, overlapped>>
  BY Zenon DEF Save, TrySave
<1>3. /\ Busy(t) /\ step \in todo /\ JobFits(t)
      /\ todo \cap SaveSteps = {step} /\ "memory" \in todo
      /\ t = "main" => todo \cap ServerSteps = {}
  BY <1>0, <1>1, SaveStepLeft, Zenon
<1>4. /\ ~overlapped => Held(prev, next, todo)
      /\ ~overlapped /\ ~unsaved =>
           Applied(prev, next, todo) /\ Served(prev, next, todo)
  BY <1>0, <1>1, AtProgress
<1>5. step \notin ServerSteps \cup {"memory", "engine", "source"}
  BY <1>0 DEF SaveSteps, ServerSteps
<1>6. /\ SaveSteps \cap (todo \ {step}) = {}
      /\ "memory" \in todo \ {step}
      /\ "engine" \in todo \ {step} <=> "engine" \in todo
      /\ "source" \in todo \ {step} <=> "source" \in todo
      /\ ServerSteps \cap (todo \ {step}) = ServerSteps \cap todo
  BY <1>0, <1>3, <1>5
<1>7. CASE disk' = next /\ Done(t) /\ UNCHANGED unsaved
  <2>1. Moves(t, todo \ {step})
    BY <1>0, <1>1, <1>7, DoneMoves
  <2>2. ~overlapped => Held(prev, next, todo \ {step})'
    BY <1>0, <1>2, <1>3, <1>4, <1>6, <1>7 DEF Held
  <2>3. ~overlapped /\ ~unsaved' => Applied(prev, next, todo \ {step})'
    BY <1>0, <1>2, <1>3, <1>4, <1>6, <1>7 DEF Applied
  <2>4. ~overlapped /\ ~unsaved' => Served(prev, next, todo \ {step})'
    BY <1>0, <1>2, <1>3, <1>4, <1>6, <1>7 DEF Served, ServerOf, Running, ServerSteps
  <2>5. QED
    BY <1>0, <1>2, <1>3, <2>1, <2>2, <2>3, <2>4, ProgressOn
<1>8. CASE step = "try save" /\ unsaved' = TRUE /\ UNCHANGED disk /\ Done(t)
  <2>1. Moves(t, todo \ {step})
    BY <1>0, <1>1, <1>8, DoneMoves
  <2>2. next.server_enabled = prev.server_enabled
    BY <1>0, <1>3, <1>8 DEF JobFits
  <2>3. ~overlapped => Held(prev, next, todo \ {step})'
    BY <1>0, <1>2, <1>3, <1>4, <1>6, <1>8, <2>2 DEF Held
  <2>4. QED
    BY <1>0, <1>2, <1>3, <1>8, <2>1, <2>3, ProgressOn
<1>9. CASE step = "save" /\ unsaved' = TRUE /\ UNCHANGED disk /\ Fail(t)
  <2>1. Moves(t, {})
    BY <1>0, <1>9, FailMoves
  <2>2. ~overlapped => Held(memory, memory, {})'
    BY <1>0, <1>2, <1>3, <1>4, <1>9 DEF Held
  <2>3. QED
    BY <1>0, <1>2, <1>3, <1>9, <2>1, <2>2, ProgressEnds
<1>10. QED
  BY <1>0, <1>1, <1>7, <1>8, <1>9

\* The memory, the engine and its source take the new settings over.
LEMMA ApplyProgress ==
  ASSUME SettingsTyped, Progress, NEW t \in Threads,
         SetMemory(t) \/ SetEngine(t) \/ RestartSource(t)
  PROVE  Progress'
<1>0. PICK prev, next, todo :
        prev = job[t].prev /\ next = job[t].next /\ todo = Left(t)
  OBVIOUS
<1>1. PICK step \in {"memory", "engine", "source"} :
        /\ At(t, step) /\ Done(t)
        /\ IF step = "memory"
           THEN /\ memory' = next
                /\ pin' = IF next.always_on_top # prev.always_on_top
                          THEN next.always_on_top ELSE pin
           ELSE UNCHANGED <<memory, pin>>
        /\ engine_config' = IF step = "engine" THEN next ELSE engine_config
        /\ engine_source' \in IF step = "source"
             THEN {BuildSource(next)} \cup
                  (IF SourceFieldsChanged(prev, next) THEN {} ELSE {engine_source})
             ELSE {engine_source}
  <2>1. CASE SetMemory(t)
    BY <1>0, <2>1 DEF SetMemory
  <2>2. CASE SetEngine(t)
    BY <1>0, <2>2 DEF SetEngine
  <2>3. CASE RestartSource(t)
    BY <1>0, <2>3 DEF RestartSource
  <2>4. QED
    BY <1>0, <2>1, <2>2, <2>3
<1>2. UNCHANGED <<disk, server, overlapped, unsaved>>
  BY Zenon DEF SetMemory, SetEngine, RestartSource
<1>3. Busy(t) /\ step \in todo /\ prev \in Settings /\ next \in Settings
  BY <1>0, <1>1, AtStep
<1>4. /\ ~overlapped => Held(prev, next, todo)
      /\ ~overlapped /\ ~unsaved =>
           Applied(prev, next, todo) /\ Served(prev, next, todo)
  BY <1>0, <1>1, AtProgress
<1>5. Moves(t, todo \ {step})
  BY <1>0, <1>1, DoneMoves
<1>6. step \notin ServerSteps \cup SaveSteps
  BY <1>0 DEF SaveSteps, ServerSteps
<1>7. /\ \A x \in {"memory", "engine", "source"} :
           x \in todo \ {step} <=> x \in todo /\ x # step
      /\ SaveSteps \cap (todo \ {step}) = SaveSteps \cap todo
      /\ ServerSteps \cap (todo \ {step}) = ServerSteps \cap todo
  BY <1>0, <1>6
<1>8. ~SourceFieldsChanged(prev, next) => BuildSource(prev) = BuildSource(next)
  BY <1>0 DEF SourceFieldsChanged, BuildSource
<1>9. ~overlapped => Held(prev, next, todo \ {step})'
  BY <1>0, <1>1, <1>2, <1>3, <1>4, <1>7 DEF Held, Running
<1>10. ASSUME ~overlapped, ~unsaved'
       PROVE  Applied(prev, next, todo \ {step})'
  <2>1. Applied(prev, next, todo)
    BY <1>0, <1>2, <1>4, <1>10
  <2>2. disk' = IF SaveSteps \cap (todo \ {step}) = {} THEN next ELSE prev
    BY <1>0, <1>2, <1>7, <2>1 DEF Applied
  <2>3. engine_config' = IF "engine" \in todo \ {step} THEN prev ELSE next
    BY <1>0, <1>1, <1>3, <1>7, <2>1 DEF Applied
  <2>4. engine_source' = BuildSource(IF "source" \in todo \ {step} THEN prev
                                                                      ELSE next)
    BY <1>0, <1>1, <1>3, <1>7, <1>8, <2>1 DEF Applied
  <2>5. /\ \/ pin' = next.always_on_top
           \/ "memory" \in todo \ {step} /\ pin' = prev.always_on_top
        /\ "memory" \in todo \ {step} /\ ServerSteps \cap (todo \ {step}) # {}
           => pin' = prev.always_on_top
    BY <1>0, <1>1, <1>3, <1>7, <2>1 DEF Applied
  <2>6. QED
    BY <1>0, <2>2, <2>3, <2>4, <2>5 DEF Applied
<1>11. ASSUME ~overlapped, ~unsaved'
       PROVE  Served(prev, next, todo \ {step})'
  BY <1>0, <1>2, <1>4, <1>6, <1>7, <1>11 DEF Served, ServerOf, Running, ServerSteps
<1>12. QED
  BY <1>0, <1>2, <1>3, <1>5, <1>9, <1>10, <1>11, ProgressOn

\* A step that changes the server leaves the rest as it is, and the command goes
\* on with what settings and server have to do with each other.
LEMMA ServerGoesOn ==
  ASSUME SettingsTyped, Progress, NEW t \in Threads, NEW step \in ServerSteps,
         At(t, step), UNCHANGED serverOnly,
         NEW prev, prev = job[t].prev, NEW next, next = job[t].next,
         NEW todo, todo = Left(t), NEW later, Moves(t, later),
         \/ later = todo \ {step}
         \/ \E other \in ServerSteps : later = (todo \ {step}) \cup {other},
         later = todo \ {step} => next.server_enabled = Running',
         ~overlapped /\ ~unsaved /\ Served(prev, next, todo)
           => Served(prev, next, later)'
  PROVE  Progress'
<1>1. UNCHANGED <<disk, memory, engine_config, engine_source, pin, overlapped, unsaved>>
  BY Zenon DEF serverOnly
<1>2. /\ Busy(t) /\ step \in todo /\ todo \cap ServerSteps = {step}
      /\ t = "main" => /\ todo \cap SaveSteps # {}
                       /\ {"memory", "engine", "source"} \subseteq todo
      /\ t # "main" => todo = {step}
  BY ServerStepLeft, Zenon
<1>3. /\ ~overlapped => Held(prev, next, todo)
      /\ ~overlapped /\ ~unsaved =>
           Applied(prev, next, todo) /\ Served(prev, next, todo)
  BY AtProgress
<1>4. \A x \in ServerSteps : x \notin SaveSteps \cup {"memory", "engine", "source"}
  BY DEF SaveSteps, ServerSteps
<1>5. /\ \A x \in {"memory", "engine", "source"} : x \in later <=> x \in todo
      /\ SaveSteps \cap later = SaveSteps \cap todo
  BY <1>4
<1>6. later = todo \ {step} \/ ServerSteps \cap later # {}
  OBVIOUS
<1>7. ~overlapped => Held(prev, next, later)'
  BY <1>1, <1>3, <1>5, <1>6 DEF Held
<1>8. step \in ServerSteps \cap todo
  BY <1>2
<1>9. ~overlapped /\ ~unsaved' => Applied(prev, next, later)'
  BY <1>1, <1>3, <1>5, <1>8 DEF Applied
<1>10. ~overlapped /\ ~unsaved' => Served(prev, next, later)'
  BY <1>1, <1>3
<1>11. QED
  BY <1>1, <1>2, <1>7, <1>9, <1>10, ProgressOn

\* A command that fails at the server leaves it with the server of the settings
\* it began with: set_config has written nothing yet, and for the dialog's both
\* settings describe the same server.
LEMMA ServerFails ==
  ASSUME SettingsTyped, Progress, NEW t \in Threads, NEW step \in ServerSteps,
         At(t, step), UNCHANGED serverOnly, Moves(t, {}),
         NEW prev, prev = job[t].prev,
         ~overlapped /\ ~unsaved => ServerOf(prev)'
  PROVE  Progress'
<1>0. PICK next, todo : next = job[t].next /\ todo = Left(t)
  OBVIOUS
<1>1. UNCHANGED <<disk, memory, engine_config, engine_source, pin, overlapped, unsaved>>
  BY Zenon DEF serverOnly
<1>2. /\ Busy(t) /\ step \in todo /\ todo \cap ServerSteps = {step}
      /\ t = "main" => /\ todo \cap SaveSteps # {}
                       /\ {"memory", "engine", "source"} \subseteq todo
      /\ t # "main" => todo = {step}
  BY <1>0, ServerStepLeft, Zenon
<1>3. /\ ~overlapped => Held(prev, next, todo)
      /\ ~overlapped /\ ~unsaved => Applied(prev, next, todo)
  BY <1>0, AtProgress
<1>4. t # "main" => /\ "memory" \notin todo /\ "engine" \notin todo
                    /\ "source" \notin todo /\ SaveSteps \cap todo = {}
  <2>1. step \notin SaveSteps \cup {"memory", "engine", "source"}
    BY DEF SaveSteps, ServerSteps
  <2>2. QED
    BY <1>2, <2>1
<1>5. PICK now :
        /\ now = memory
        /\ ~overlapped => (t = "main" => now = prev) /\ (t # "main" => now = next)
  BY <1>2, <1>3, <1>4 DEF Held
<1>6. ~overlapped => Held(memory, memory, {})'
  BY <1>1, <1>2, <1>3, <1>4, <1>5 DEF Held
<1>7. ~overlapped /\ ~unsaved' => Applied(memory, memory, {})'
  BY <1>1, <1>2, <1>3, <1>4, <1>5 DEF Applied
<1>8. ~overlapped /\ ~unsaved' => Served(memory, memory, {})'
  <2>1. ~overlapped /\ t # "main" =>
          Handle(next) = Handle(prev) /\ next.server_enabled = prev.server_enabled
    BY <1>0, AtStep DEF JobFits, ServerFieldsChanged, Handle
  <2>2. ~overlapped /\ ~unsaved => ServerOf(now)'
    BY <1>5, <2>1 DEF ServerOf
  <2>3. QED
    BY <1>1, <1>5, <2>2 DEF Served, ServerOf
<1>9. QED
  BY <1>1, <1>2, <1>6, <1>7, <1>8, ProgressEnds

\* Deciding what becomes of the server.
LEMMA ServerChangeProgress ==
  ASSUME SettingsTyped, Progress, NEW t \in Threads, ApplyServerChange(t)
  PROVE  Progress'
<1>0. PICK prev, next, todo :
        prev = job[t].prev /\ next = job[t].next /\ todo = Left(t)
  OBVIOUS
<1>1. At(t, "server") /\ UNCHANGED serverOnly
  BY DEF ApplyServerChange
<1>2. /\ todo \cap ServerSteps = {"server"}
      /\ prev \in Settings /\ next \in Settings
      /\ next.server_enabled \in BOOLEAN /\ prev.server_enabled \in BOOLEAN
  BY <1>0, <1>1, AtStep DEF InOrder, Left, ServerSteps, Settings
<1>3. {"server", "start", "restart", "restore"} = ServerSteps
  BY DEF ServerSteps
<1>4. CASE /\ ~ServerFieldsChanged(prev, next) /\ Running = next.server_enabled
           /\ Done(t) /\ UNCHANGED server
  <2>1. Moves(t, todo \ {"server"})
    BY <1>0, <1>1, <1>4, DoneMoves
  <2>2. next.server_enabled = Running'
    BY <1>4 DEF Running
  <2>3. Handle(next) = Handle(prev) /\ next.server_enabled = prev.server_enabled
    BY <1>4 DEF ServerFieldsChanged, Handle
  <2>4. Served(prev, next, todo) => Served(prev, next, todo \ {"server"})'
    BY <1>2, <1>3, <1>4, <2>3 DEF Served, ServerOf, Running
  <2>5. QED
    BY <1>0, <1>1, <1>3, <2>1, <2>2, <2>4, ServerGoesOn
<1>5. CASE ~next.server_enabled /\ server' = NoServer /\ Done(t)
  <2>1. Moves(t, todo \ {"server"})
    BY <1>0, <1>1, <1>5, DoneMoves
  <2>2. next.server_enabled = Running' /\ ~Running'
    BY <1>2, <1>5 DEF Running
  <2>3. Served(prev, next, todo) => Served(prev, next, todo \ {"server"})'
    BY <1>2, <1>3, <2>2 DEF Served, ServerOf
  <2>4. QED
    BY <1>0, <1>1, <1>3, <2>1, <2>2, <2>3, ServerGoesOn
<1>6. CASE Running /\ server' = NoServer /\ Instead(t, "restart")
  <2>1. Moves(t, (todo \ {"server"}) \cup {"restart"})
    BY <1>0, <1>1, <1>3, <1>6, InsteadMoves
  <2>2. ~Running'
    BY <1>6 DEF Running
  <2>3. Served(prev, next, todo)
          => Served(prev, next, (todo \ {"server"}) \cup {"restart"})'
    BY <1>2, <1>3, <1>6, <2>2 DEF Served, ServerOf
  <2>4. (todo \ {"server"}) \cup {"restart"} # todo \ {"server"}
    BY <1>2, <1>3
  <2>5. QED
    BY <1>0, <1>1, <1>3, <2>1, <2>3, <2>4, ServerGoesOn
<1>7. CASE Instead(t, "start") /\ UNCHANGED server
  <2>1. Moves(t, (todo \ {"server"}) \cup {"start"})
    BY <1>0, <1>1, <1>3, <1>7, InsteadMoves
  <2>2. Served(prev, next, todo)
          => Served(prev, next, (todo \ {"server"}) \cup {"start"})'
    BY <1>2, <1>3, <1>7 DEF Served, ServerOf, Running
  <2>3. (todo \ {"server"}) \cup {"start"} # todo \ {"server"}
    BY <1>2, <1>3
  <2>4. QED
    BY <1>0, <1>1, <1>3, <2>1, <2>2, <2>3, ServerGoesOn
<1>8. QED
  BY <1>0, <1>4, <1>5, <1>6, <1>7, Zenon DEF ApplyServerChange

\* Starting it, and putting the old one back.
LEMMA ServerStartProgress ==
  ASSUME SettingsTyped, Progress, NEW t \in Threads,
         StartServer(t) \/ RestartServer(t) \/ RestoreServer(t)
  PROVE  Progress'
<1>0. PICK prev, next, todo :
        prev = job[t].prev /\ next = job[t].next /\ todo = Left(t)
  OBVIOUS
<1>1. PICK step \in {"start", "restart", "restore"} :
        /\ At(t, step)
        /\ \/ step # "restore" /\ CanBind(next) /\ server' = Handle(next) /\ Done(t)
           \/ step = "start" /\ Fail(t) /\ UNCHANGED server
           \/ step = "restart" /\ Instead(t, "restore") /\ UNCHANGED server
           \/ /\ step = "restore" /\ Fail(t)
              /\ server' = server \/ (CanBind(prev) /\ server' = Handle(prev))
  BY <1>0, Zenon DEF StartServer, RestartServer, RestoreServer
<1>2. UNCHANGED serverOnly
  BY Zenon DEF StartServer, RestartServer, RestoreServer
<1>3. /\ Busy(t) /\ todo \cap ServerSteps = {step} /\ step \in ServerSteps
      /\ prev \in Settings /\ next \in Settings /\ JobFits(t) /\ step \in todo
  BY <1>0, <1>1, AtStep DEF InOrder, Left, ServerSteps
<1>4. next.server_enabled
  BY <1>0, <1>1, <1>3 DEF JobFits
<1>5. {"server", "start", "restart", "restore"} = ServerSteps
  BY DEF ServerSteps
<1>6. ~overlapped /\ ~unsaved => Served(prev, next, todo)
  BY <1>0, <1>1, AtProgress
<1>7. CASE step # "restore" /\ CanBind(next) /\ server' = Handle(next) /\ Done(t)
  <2>1. Moves(t, todo \ {step})
    BY <1>0, <1>1, <1>7, DoneMoves
  <2>2. Running'
    BY <1>3, <1>7, HandleTyped DEF CanBind, Running
  <2>3. next.server_enabled = Running'
    <3>1. Running' \in BOOLEAN /\ next.server_enabled \in BOOLEAN
      BY <1>3 DEF Running, Settings
    <3>2. QED
      BY <1>4, <2>2, <3>1
  <2>4. Served(prev, next, todo \ {step})'
    BY <1>3, <1>4, <1>5, <1>7 DEF Served, ServerOf
  <2>5. QED
    BY <1>0, <1>1, <1>2, <1>3, <2>1, <2>3, <2>4, ServerGoesOn
<1>8. CASE step = "start" /\ Fail(t) /\ UNCHANGED server
  <2>1. Moves(t, {})
    BY <1>8, FailMoves
  <2>2. ~overlapped /\ ~unsaved => ServerOf(prev)'
    BY <1>3, <1>6, <1>8 DEF Served, ServerOf, Running
  <2>3. QED
    BY <1>0, <1>1, <1>2, <1>3, <2>1, <2>2, ServerFails
<1>9. CASE step = "restart" /\ Instead(t, "restore") /\ UNCHANGED server
  <2>1. Moves(t, (todo \ {step}) \cup {"restore"})
    BY <1>0, <1>1, <1>3, <1>5, <1>9, InsteadMoves
  <2>2. Served(prev, next, todo) => Served(prev, next, (todo \ {step}) \cup {"restore"})'
    BY <1>3, <1>5, <1>9 DEF Served, ServerOf, Running
  <2>3. (todo \ {step}) \cup {"restore"} # todo \ {step}
    BY <1>3, <1>5, <1>9
  <2>4. QED
    BY <1>0, <1>1, <1>2, <1>3, <1>5, <2>1, <2>2, <2>3, ServerGoesOn
<1>10. CASE /\ step = "restore" /\ Fail(t)
            /\ server' = server \/ (CanBind(prev) /\ server' = Handle(prev))
  <2>1. Moves(t, {})
    BY <1>10, FailMoves
  <2>2. ~overlapped /\ ~unsaved => ServerOf(prev)'
    BY <1>3, <1>6, <1>10 DEF Served, ServerOf, Running
  <2>3. QED
    BY <1>0, <1>1, <1>2, <1>3, <2>1, <2>2, ServerFails
<1>11. QED
  BY <1>1, <1>7, <1>8, <1>9, <1>10

\* A command finds the settings in agreement and has everything left to do; one
\* that leaves source and server alone has no step for them.
LEMMA CommandBegins ==
  ASSUME SettingsTyped, Progress, NEW t \in Threads, NEW next \in Settings,
         NEW plan \in Plans(t), Begin(t, next, plan),
         UNCHANGED <<disk, memory, engine_config, engine_source, server, unsaved>>,
         "save" \in Todo(plan) \/ "try save" \in Todo(plan),
         "memory" \in Todo(plan), "engine" \in Todo(plan),
         \/ ServerSteps \cap Todo(plan) = {"server"} /\ "source" \in Todo(plan)
            /\ pin' = pin
         \/ /\ ServerSteps \cap Todo(plan) = {}
            /\ ~ServerFieldsChanged(memory, next)
            /\ ~SourceFieldsChanged(memory, next)
            /\ pin' = pin \/ pin' = next.always_on_top
  PROVE  Progress'
<1>0. PICK old, todo : old = memory /\ todo = Todo(plan)
  OBVIOUS
<1>1. SaveSteps \cap todo # {}
  BY <1>0 DEF SaveSteps
<1>2. "restart" \notin todo /\ "restore" \notin todo /\ "start" \notin todo
  <2>1. \A x \in {"start", "restart", "restore"} : x \in ServerSteps \ {"server"}
    BY DEF ServerSteps
  <2>2. \A x \in todo : x \notin ServerSteps \ {"server"}
    BY <1>0
  <2>3. QED
    BY <2>1, <2>2
<1>3. CASE ServerSteps \cap todo = {"server"} /\ "source" \in todo /\ pin' = pin
  <2>1. Held(memory, memory, {}) => Held(old, next, todo)'
    BY <1>0, <1>1, <1>3 DEF Held
  <2>2. Applied(memory, memory, {}) => Applied(old, next, todo)'
    BY <1>0, <1>1, <1>3 DEF Applied
  <2>3. Served(memory, memory, {}) => Served(old, next, todo)'
    BY <1>0, <1>2, <1>3 DEF Served, ServerOf, Running
  <2>4. QED
    BY <1>0, <2>1, <2>2, <2>3, ProgressBegins
<1>4. CASE /\ ServerSteps \cap todo = {}
           /\ ~ServerFieldsChanged(memory, next)
           /\ ~SourceFieldsChanged(memory, next)
           /\ pin' = pin \/ pin' = next.always_on_top
  <2>1. /\ BuildSource(next) = BuildSource(old) /\ Handle(next) = Handle(old)
        /\ next.server_enabled = old.server_enabled
    BY <1>0, <1>4 DEF ServerFieldsChanged, SourceFieldsChanged, BuildSource, Handle
  <2>2. Held(memory, memory, {}) => Held(old, next, todo)'
    BY <1>0, <1>1, <1>4, <2>1 DEF Held
  <2>3. Applied(memory, memory, {}) => Applied(old, next, todo)'
    BY <1>0, <1>1, <1>4, <2>1 DEF Applied
  <2>4. "server" \notin todo
    BY <1>4 DEF ServerSteps
  <2>5. Served(memory, memory, {}) => Served(old, next, todo)'
    BY <1>0, <1>2, <1>4, <2>1, <2>4 DEF Served, ServerOf, Running
  <2>6. QED
    BY <1>0, <2>2, <2>3, <2>5, ProgressBegins
<1>5. QED
  BY <1>0, <1>3, <1>4

\* Every step keeps what is known of the command under way.
LEMMA ProgressStep ==
  SettingsTyped /\ Progress /\ [SettingsNext]_shellVars => Progress'
<1> SUFFICES ASSUME SettingsTyped, Progress, [SettingsNext]_shellVars
             PROVE  Progress'
  OBVIOUS
<1>0. "main" \in Threads /\ "worker" \in Threads
  BY DEF Threads
<1>1. /\ ServerSteps \cap {"server", "save", "memory", "engine", "source"} = {"server"}
      /\ ServerSteps \cap {"save", "memory", "engine", "source", "server"} = {"server"}
      /\ ServerSteps \cap {"save", "memory", "engine"} = {}
      /\ ServerSteps \cap {"try save", "memory", "engine"} = {}
  BY DEF ServerSteps
<1>2. CASE SetConfig
  <2>1. PICK next \in Settings :
          Begin("main", next, <<"server", "save", "memory", "engine", "source">>)
    BY <1>2, SetConfigBegins
  <2>2. UNCHANGED <<disk, memory, engine_config, engine_source, server, unsaved, pin>>
    BY <1>2 DEF SetConfig
  <2>3. QED
    BY <1>0, <1>1, <2>1, <2>2, FirstPlans, CommandBegins
<1>3. CASE PickStateFile
  <2>1. PICK next \in Settings :
          Begin("worker", next, <<"save", "memory", "engine", "source", "server">>)
    BY <1>3, OtherCommandsBegin
  <2>2. UNCHANGED <<disk, memory, engine_config, engine_source, server, unsaved, pin>>
    BY <1>3 DEF PickStateFile
  <2>3. QED
    BY <1>0, <1>1, <2>1, <2>2, FirstPlans, CommandBegins
<1>4. CASE ApplyAlwaysOnTop
  <2>1. PICK next \in Settings :
          /\ Begin("main", next, <<"save", "memory", "engine">>)
          /\ ~ServerFieldsChanged(memory, next) /\ ~SourceFieldsChanged(memory, next)
          /\ next.always_on_top = ~memory.always_on_top
    BY <1>4, OtherCommandsBegin
  <2>2. UNCHANGED <<disk, memory, engine_config, engine_source, server, unsaved>>
        /\ pin' = next.always_on_top
    BY <1>4, <2>1 DEF ApplyAlwaysOnTop
  <2>3. QED
    BY <1>0, <1>1, <2>1, <2>2, FirstPlans, CommandBegins
<1>5. CASE SetCollapseStyle
  <2>1. PICK next \in Settings :
          /\ Begin("main", next, <<"try save", "memory", "engine">>)
          /\ ~ServerFieldsChanged(memory, next) /\ ~SourceFieldsChanged(memory, next)
    BY <1>5, OtherCommandsBegin
  <2>2. UNCHANGED <<disk, memory, engine_config, engine_source, server, unsaved, pin>>
    BY <1>5 DEF SetCollapseStyle
  <2>3. QED
    BY <1>0, <1>1, <2>1, <2>2, FirstPlans, CommandBegins
<1>6. CASE RefreshHubStatus \/ GetHubStatus \/ ProbeHub \/ UNCHANGED shellVars
  <2>1. UNCHANGED <<disk, memory, engine_config, engine_source, pin, server, job,
                    overlapped, unsaved>>
    BY <1>6, Zenon DEF RefreshHubStatus, GetHubStatus, ProbeHub, probeOnly, shellVars
  <2>2. QED
    BY <2>1, SMTT(30) DEF Progress, Held, Applied, Served, ServerOf, Running, Left, Busy
<1>7. CASE Relaunch
  <2>1. /\ disk' = disk /\ memory' = disk /\ engine_config' = disk
        /\ engine_source' = BuildSource(disk)
        /\ pin' = disk.always_on_top
        /\ server' \in LaunchedServers(disk) /\ job' = NoJobs
    BY <1>7 DEF Relaunch
  <2>2. \A t \in Threads : ~Busy(t)'
    BY <2>1, NoJobsTyped DEF Busy
  <2>3. Held(memory, memory, {})'
    BY <2>1 DEF Held
  <2>4. Applied(memory, memory, {})'
    BY <2>1 DEF Applied
  <2>5. Served(memory, memory, {})'
    BY <2>1 DEF Served, ServerOf, Running, LaunchedServers
  <2>6. QED
    BY <2>2, <2>3, <2>4, <2>5 DEF Progress
<1>8. QED
  BY <1>2, <1>3, <1>4, <1>5, <1>6, <1>7, SaveProgress, ApplyProgress,
     ServerChangeProgress, ServerStartProgress DEF SettingsNext

\* The probe of the hub is not forgotten by a step that neither probes nor
\* replaces the settings, unless it was the one that was to spawn it.
LEMMA ProbedKept ==
  ASSUME Probed, spawned' = spawned, UNCHANGED <<probes, hub_status, raced>>,
         ~overlapped' => ~overlapped,
         ~overlapped => \/ memory'.source_kind # "hub"
                        \/ /\ memory'.source_kind = memory.source_kind
                           /\ memory'.hub_url = memory.hub_url,
         ~overlapped /\ WillProbe => WillProbe' \/ memory'.source_kind # "hub"
  PROVE  Probed'
BY DEF Probed, BeingProbed

\* A thread that works on the settings, and has not come to the source.
LEMMA WillProbeKept ==
  ASSUME SettingsTyped, NEW t \in Threads, NEW step, At(t, step),
         step \notin {"memory", "source"},
         \/ Done(t)
         \/ Fail(t) /\ step \in ServerSteps \cup {"save"}
         \/ step \in ServerSteps /\ \E other \in ServerSteps : Instead(t, other)
  PROVE  WillProbe => WillProbe'
<1> SUFFICES ASSUME WillProbe
             PROVE  WillProbe'
  OBVIOUS
<1>1. /\ "source" \in Left("main") /\ "memory" \notin Left("main")
  BY DEF WillProbe
<1>2. /\ Busy(t) /\ step \in Left(t) /\ InOrder(t, job[t].plan)
  BY AtStep
<1>3. PICK todo : Moves(t, todo) /\ \/ todo = Left(t) \ {step}
                                    \/ Fail(t) /\ step \in ServerSteps \cup {"save"}
                                    \/ \E other \in ServerSteps :
                                         /\ step \in ServerSteps
                                         /\ todo = (Left(t) \ {step}) \cup {other}
  <2>1. CASE Done(t)
    BY <2>1, DoneMoves
  <2>2. CASE Fail(t) /\ step \in ServerSteps \cup {"save"}
    BY <2>2, FailMoves
  <2>3. CASE step \in ServerSteps /\ \E other \in ServerSteps : Instead(t, other)
    <3>1. PICK other \in ServerSteps : Instead(t, other)
      BY <2>3
    <3>2. QED
      BY <2>3, <3>1, InsteadMoves
  <2>4. QED
    BY <2>1, <2>2, <2>3
<1>4. CASE t = "main"
  <2>1. step \notin SaveSteps \cup ServerSteps
    BY <1>1, <1>2, <1>4, AtStep DEF InOrder, Left
  <2>2. todo = Left("main") \ {step}
    BY <1>3, <1>4, <2>1 DEF SaveSteps
  <2>3. Left("main")' = todo /\ "source" \in todo /\ "memory" \notin todo
        /\ job'["main"].prev = job["main"].prev /\ job'["main"].next = job["main"].next
    BY <1>1, <1>3, <1>4, <2>2 DEF Moves, Left
  <2>4. QED
    BY <2>3 DEF WillProbe
<1>5. CASE t # "main"
  <2>1. job'["main"] = job["main"]
    BY <1>3, <1>5 DEF Moves, Threads
  <2>2. QED
    BY <2>1 DEF WillProbe, Left
<1>6. QED
  BY <1>4, <1>5

\* Only the configured hub is being probed.
OnlyHubProbed ==
  /\ \A u \in Urls : BeingProbed(u) => u = memory.hub_url
  /\ probes # NoProbes

\* A probe that does not race with another is of the configured hub, and so is
\* every other that is under way.
LEMMA ProbingAlone ==
  ASSUME SettingsTyped, NEW u \in Urls, Probing(u), UNCHANGED memory, ~raced'
  PROVE  OnlyHubProbed'
<1>1. /\ probes \in [Urls -> Nat] /\ probes' = [probes EXCEPT ![u] = @ + 1]
      /\ u = memory.hub_url /\ \A v \in Urls \ {u} : ~BeingProbed(v)
  BY DEF Probing, SettingsTyped
<1>2. probes'[u] # 0 /\ \A v \in Urls \ {u} : probes'[v] = probes[v]
  BY <1>1
<1>3. \A v \in Urls \ {u} : ~BeingProbed(v)'
  BY <1>1, <1>2 DEF BeingProbed
<1>4. probes' # NoProbes
  BY <1>2 DEF NoProbes
<1>5. QED
  BY <1>1, <1>3, <1>4 DEF OnlyHubProbed

\* Every step keeps track of the probe to come.
LEMMA ProbedStep ==
  SettingsTyped /\ Progress /\ Probed /\ [SettingsNext]_shellVars => Probed'
<1> SUFFICES ASSUME SettingsTyped, Progress, Probed, [SettingsNext]_shellVars
             PROVE  Probed'
  OBVIOUS
<1>0. "main" \in Threads /\ "worker" \in Threads
  BY DEF Threads
<1>1. ASSUME NEW t \in Threads, NEW next \in Settings, NEW plan \in Plans(t),
             Begin(t, next, plan), "memory" \in Todo(plan),
             UNCHANGED <<memory, spawned, probes, hub_status, raced>>
      PROVE  Probed'
  <2>1. /\ ~Busy(t) /\ job'[t].plan = plan
        /\ \A u \in Threads \ {t} : job'[u] = job[u]
        /\ ~overlapped' => ~overlapped
    BY <1>1, BeginDoes
  <2>2. WillProbe => WillProbe'
    <3>1. CASE t = "main"
      <4>1. Left("main") = {}
        BY <2>1, <3>1, TodoTuples DEF Busy, Left
      <4>2. QED
        BY <4>1 DEF WillProbe
    <3>2. CASE t # "main"
      BY <1>0, <2>1, <3>2 DEF WillProbe, Left
    <3>3. QED
      BY <3>1, <3>2
  <2>3. QED
    BY <1>1, <2>1, <2>2, ProbedKept
<1>2. ASSUME SetConfig \/ PickStateFile \/ ApplyAlwaysOnTop \/ SetCollapseStyle
      PROVE  Probed'
  <2>1. UNCHANGED <<memory, spawned, probes, hub_status, raced>>
    BY <1>2, Zenon DEF SetConfig, PickStateFile, ApplyAlwaysOnTop, SetCollapseStyle
  <2>2. \/ \E next \in Settings :
             Begin("main", next, <<"server", "save", "memory", "engine", "source">>)
        \/ \E next \in Settings :
             Begin("worker", next, <<"save", "memory", "engine", "source", "server">>)
        \/ \E next \in Settings : Begin("main", next, <<"save", "memory", "engine">>)
        \/ \E next \in Settings : Begin("main", next, <<"try save", "memory", "engine">>)
    BY <1>2, SetConfigBegins, OtherCommandsBegin
  <2>3. QED
    BY <1>0, <1>1, <2>1, <2>2, FirstPlans
<1>3. ASSUME NEW t \in Threads, NEW step, At(t, step), step \notin {"memory", "source"},
             \/ Done(t)
             \/ Fail(t) /\ step \in ServerSteps \cup {"save"}
             \/ step \in ServerSteps /\ \E other \in ServerSteps : Instead(t, other),
             UNCHANGED <<memory, spawned, probes, hub_status, raced, overlapped>>
      PROVE  Probed'
  <2>1. WillProbe => WillProbe'
    BY <1>3, WillProbeKept
  <2>2. QED
    BY <1>3, <2>1, ProbedKept
<1>4. ASSUME NEW t \in Threads,
             Save(t) \/ TrySave(t) \/ SetEngine(t) \/ ApplyServerChange(t)
             \/ StartServer(t) \/ RestartServer(t) \/ RestoreServer(t)
      PROVE  Probed'
  <2>1. {"server", "start", "restart", "restore"} = ServerSteps
    BY DEF ServerSteps
  <2>2. PICK step \in {"save", "try save", "engine", "server", "start", "restart",
                       "restore"} :
          /\ At(t, step)
          /\ \/ Done(t)
             \/ Fail(t) /\ step \in {"save", "start", "restore"}
             \/ step = "server" /\ Instead(t, "restart")
             \/ step = "server" /\ Instead(t, "start")
             \/ step = "restart" /\ Instead(t, "restore")
    BY <1>4, Zenon DEF Save, TrySave, SetEngine, ApplyServerChange, StartServer,
                       RestartServer, RestoreServer
  <2>3. UNCHANGED <<memory, spawned, probes, hub_status, raced, overlapped>>
    BY <1>4, Zenon DEF Save, TrySave, SetEngine, ApplyServerChange, StartServer,
                       RestartServer, RestoreServer, serverOnly
  <2>4. step \notin {"memory", "source"}
    BY <2>2
  <2>5. QED
    BY <1>3, <2>1, <2>2, <2>3, <2>4
<1>5. ASSUME NEW t \in Threads, SetMemory(t)
      PROVE  Probed'
  <2>0. PICK prev, next, todo :
          prev = job[t].prev /\ next = job[t].next /\ todo = Left(t)
    OBVIOUS
  <2>1. /\ At(t, "memory") /\ Done(t) /\ memory' = next
        /\ UNCHANGED <<spawned, probes, hub_status, raced, overlapped>>
    BY <1>5, <2>0, Zenon DEF SetMemory
  <2>2. "memory" \in todo /\ Busy(t) /\ JobFits(t)
    BY <2>0, <2>1, AtStep
  <2>3. ~overlapped => memory = prev
    BY <2>0, <2>1, <2>2, AtProgress DEF Held
  <2>4. Moves(t, todo \ {"memory"})
    BY <2>0, <2>1, DoneMoves
  <2>5. CASE t # "main"
    <3>1. next.source_kind = "file"
      BY <2>0, <2>2, <2>5 DEF JobFits
    <3>2. QED
      BY <2>1, <3>1, ProbedKept
  <2>6. CASE t = "main"
    <3>1. ~WillProbe
      BY <2>0, <2>2, <2>6 DEF WillProbe
    <3>2. CASE SourceFieldsChanged(prev, next)
      <4>1. "source" \in todo
        BY <2>0, <2>2, <2>6, <3>2 DEF JobFits
      <4>2. Left("main")' = todo \ {"memory"} /\ Busy(t)'
        BY <2>4, <2>6, <4>1 DEF Moves, Left
      <4>3. job'["main"].prev = prev /\ job'["main"].next = next
        BY <2>0, <2>4, <2>6, <4>2 DEF Moves
      <4>4. WillProbe'
        BY <3>2, <4>1, <4>2, <4>3 DEF WillProbe
      <4>5. QED
        BY <4>4 DEF Probed
    <3>3. CASE ~SourceFieldsChanged(prev, next)
      <4>1. ~overlapped => memory'.source_kind = memory.source_kind
                           /\ memory'.hub_url = memory.hub_url
        BY <2>1, <2>3, <3>3 DEF SourceFieldsChanged
      <4>2. QED
        BY <2>1, <3>1, <4>1, ProbedKept
    <3>4. QED
      BY <3>2, <3>3
  <2>7. QED
    BY <2>5, <2>6
<1>6. ASSUME NEW t \in Threads, RestartSource(t)
      PROVE  Probed'
  <2>1. /\ At(t, "source") /\ Done(t)
        /\ spawned' = IF SourceFieldsChanged(job[t].prev, job[t].next) /\ t = "main"
                      THEN spawned + 1 ELSE spawned
        /\ UNCHANGED <<memory, probes, hub_status, raced, overlapped>>
    BY <1>6, Zenon DEF RestartSource
  <2>2. CASE SourceFieldsChanged(job[t].prev, job[t].next) /\ t = "main"
    <3>1. spawned' # 0
      BY <2>1, <2>2 DEF SettingsTyped
    <3>2. QED
      BY <3>1 DEF Probed
  <2>3. CASE ~SourceFieldsChanged(job[t].prev, job[t].next) /\ t = "main"
    <3>1. ~WillProbe
      BY <2>3 DEF WillProbe
    <3>2. QED
      BY <2>1, <2>3, <3>1, ProbedKept
  <2>4. CASE t # "main"
    <3>1. Moves(t, Left(t) \ {"source"})
      BY <2>1, DoneMoves
    <3>2. job'["main"] = job["main"]
      BY <1>0, <2>4, <3>1 DEF Moves
    <3>3. WillProbe => WillProbe'
      BY <3>2 DEF WillProbe, Left
    <3>4. QED
      BY <2>1, <2>4, <3>3, ProbedKept
  <2>5. QED
    BY <2>2, <2>3, <2>4
<1>7. CASE RefreshHubStatus
  <2>1. UNCHANGED <<memory, job, overlapped, hub_status>>
    BY <1>7, Zenon DEF RefreshHubStatus, probeOnly
  <2>2. CASE memory.source_kind = "hub"
    <3>1. Probing(memory.hub_url)
      BY <1>7, <2>2 DEF RefreshHubStatus
    <3>2. ~raced' => OnlyHubProbed'
      <4>1. memory.hub_url \in Urls
        BY DEF SettingsTyped, Settings
      <4>2. QED
        BY <2>1, <3>1, <4>1, ProbingAlone
    <3>3. QED
      BY <2>1, <3>2 DEF Probed, OnlyHubProbed
  <2>3. CASE memory.source_kind # "hub"
    BY <2>1, <2>3 DEF Probed
  <2>4. QED
    BY <2>2, <2>3
<1>8. CASE GetHubStatus
  <2>1. UNCHANGED <<memory, job, overlapped, hub_status, spawned>>
    BY <1>8, Zenon DEF GetHubStatus, probeOnly
  <2>2. PICK u \in Urls : Probing(u)
    BY <1>8 DEF GetHubStatus
  <2>3. ~raced' => OnlyHubProbed'
    BY <2>1, <2>2, ProbingAlone
  <2>4. QED
    BY <2>1, <2>3 DEF Probed, OnlyHubProbed
<1>9. CASE ProbeHub
  <2>1. UNCHANGED <<memory, job, overlapped, spawned, raced>>
    BY <1>9, Zenon DEF ProbeHub, probeOnly
  <2>2. PICK u \in Urls : /\ BeingProbed(u) /\ hub_status' = u
                         /\ probes' = [probes EXCEPT ![u] = @ - 1]
    BY <1>9 DEF ProbeHub
  <2>3. WillProbe' <=> WillProbe
    BY <2>1 DEF WillProbe, Left
  <2>4. \A v \in Urls : BeingProbed(v)' => BeingProbed(v)
    BY <2>2 DEF BeingProbed, SettingsTyped
  <2>5. QED
    BY <2>1, <2>2, <2>3, <2>4 DEF Probed
<1>10. CASE Relaunch
  <2>1. memory' = disk /\ spawned' = IF disk.source_kind = "hub" THEN 1 ELSE 0
    BY <1>10 DEF Relaunch
  <2>2. QED
    BY <2>1 DEF Probed
<1>11. CASE UNCHANGED shellVars
  <2>1. UNCHANGED <<memory, job, overlapped, spawned, raced, probes, hub_status>>
    BY <1>11 DEF shellVars
  <2>2. WillProbe' <=> WillProbe
    BY <2>1 DEF WillProbe, Left
  <2>3. QED
    BY <2>1, <2>2, ProbedKept
<1>12. QED
  BY <1>2, <1>4, <1>5, <1>6, <1>7, <1>8, <1>9, <1>10, <1>11 DEF SettingsNext

\* The program starts in agreement with its file.
LEMMA SettingsStart ==
  SettingsInit => SettingsTyped /\ Progress /\ Probed
<1> SUFFICES ASSUME SettingsInit
             PROVE  SettingsTyped /\ Progress /\ Probed
  OBVIOUS
<1>1. /\ memory = disk /\ engine_config = disk
      /\ engine_source = BuildSource(disk)
      /\ pin = disk.always_on_top
      /\ server \in LaunchedServers(disk) /\ job = NoJobs
      /\ spawned = IF disk.source_kind = "hub" THEN 1 ELSE 0
      /\ probes = NoProbes /\ hub_status = "none" /\ saves = 0
      /\ overlapped = FALSE /\ unsaved = FALSE /\ raced = FALSE
  BY DEF SettingsInit
<1>2. disk \in Settings /\ pin \in BOOLEAN
  <2>1. DefaultConfig \in Settings /\ DefaultConfig.always_on_top \in BOOLEAN
    BY SettingsAssumption DEF DefaultConfig, Settings
  <2>2. disk \in {DefaultConfig, [DefaultConfig EXCEPT !.source_kind = "hub",
                                                     !.server_enabled = TRUE]}
    BY DEF SettingsInit
  <2>3. disk \in Settings
    BY <2>1, <2>2 DEF Settings
  <2>4. disk.always_on_top \in BOOLEAN
    BY <2>3 DEF Settings
  <2>5. QED
    BY <1>1, <2>3, <2>4
<1>3. /\ job \in [Threads -> JobType]
      /\ \A t \in Threads : ~Busy(t) /\ Left(t) = {} /\ JobFits(t)
  BY <1>1, NoJobsTyped DEF Busy, Left, JobFits
<1>4. server \in ServerType
  BY <1>1, <1>2, HandleTyped DEF LaunchedServers
<1>5. SpawnsCounted /\ spawned \in Nat /\ saves \in Nat
  <2>1. MaxSaves \in Nat /\ spawned \in {0, 1}
    BY <1>1, SettingsAssumption
  <2>2. "source" \notin Left("main")
    BY <1>3 DEF Threads
  <2>3. QED
    BY <1>1, <2>1, <2>2 DEF SpawnsCounted
<1>6. SettingsTyped
  BY <1>1, <1>2, <1>3, <1>4, <1>5, NoProbesTyped, Zenon DEF SettingsTyped
<1>7. Held(memory, memory, {}) /\ Applied(memory, memory, {})
  BY <1>1 DEF Held, Applied
<1>8. Served(memory, memory, {})
  BY <1>1 DEF Served, ServerOf, Running, LaunchedServers
<1>9. Progress
  BY <1>3, <1>7, <1>8 DEF Progress
<1>10. Probed
  BY <1>1 DEF Probed
<1>11. QED
  BY <1>6, <1>9, <1>10

\* The inductive invariant of the settings.
SettingsInv == SettingsTyped /\ Progress /\ Probed

\* It holds in every state of every run.
LEMMA SettingsInvAlways ==
  SettingsSpec => []SettingsInv
<1>1. SettingsInit => SettingsInv
  BY SettingsStart DEF SettingsInv
<1>2. SettingsInv /\ [SettingsNext]_shellVars => SettingsInv'
  BY SettingsTypedStep, ProgressStep, ProbedStep DEF SettingsInv
<1>3. QED
  BY <1>1, <1>2, PTL DEF SettingsSpec

\* The steps of a plan are steps.
LEMMA PlanSteps ==
  ASSUME NEW plan \in {<<>>} \cup ConfigPlans \cup MenuPlans \cup PickPlans
  PROVE  Todo(plan) \subseteq Steps
<1>1. ServerSteps \subseteq Steps /\ SaveSteps \subseteq Steps
      /\ {"save", "memory", "engine", "source", "server"} \subseteq Steps
  BY DEF ServerSteps, SaveSteps, Steps
<1>2. CASE plan = <<>>
  BY <1>2, TodoTuples
<1>3. CASE plan \in ConfigPlans
  BY <1>1, <1>3, TodoTuples DEF ConfigPlans
<1>4. CASE plan \in MenuPlans
  BY <1>1, <1>4, TodoTuples DEF MenuPlans
<1>5. CASE plan \in PickPlans
  BY <1>1, <1>5, TodoTuples DEF PickPlans
<1>6. QED
  BY <1>2, <1>3, <1>4, <1>5

\* The settings' state has its types.
THEOREM SettingsTypeCorrect ==
  SettingsSpec => []SettingsTypeOK
<1>1. SettingsInv => SettingsTypeOK
  <2> SUFFICES ASSUME SettingsTyped
               PROVE  SettingsTypeOK
    BY DEF SettingsInv
  <2>1. ASSUME NEW t \in Threads
        PROVE  /\ job[t].prev \in Settings /\ job[t].next \in Settings
               /\ \A k \in DOMAIN job[t].plan : job[t].plan[k] \in Steps
    <3>1. job[t] \in JobType
      BY DEF SettingsTyped
    <3>2. Todo(job[t].plan) \subseteq Steps
      BY <3>1, PlanSteps DEF JobType
    <3>3. QED
      BY <3>1, <3>2 DEF JobType, Todo
  <2>2. spawned \in 0 .. MaxSaves + 1
    <3>1. /\ spawned \in Nat /\ saves \in 0 .. MaxSaves /\ spawned <= saves + 1
          /\ MaxSaves \in Nat
      BY SettingsAssumption DEF SettingsTyped, SpawnsCounted
    <3>2. \A a, b, c \in Nat : a <= b + 1 /\ b <= c => a \in 0 .. c + 1
      OBVIOUS
    <3>3. QED
      BY <3>1, <3>2
  <2>3. /\ disk \in Settings /\ memory \in Settings /\ engine_config \in Settings
        /\ pin \in BOOLEAN /\ server \in ServerType
        /\ probes \in [Urls -> Nat] /\ hub_status \in Urls \cup {"none"}
    BY DEF SettingsTyped
  <2>4. QED
    BY <2>1, <2>2, <2>3, Zenon DEF SettingsTypeOK, ServerType
<1>2. QED
  BY <1>1, SettingsInvAlways, PTL

\* Between commands that did not overlap and could be saved, the file, the
\* engine and its source, the pin and the server agree with the settings in
\* memory, whichever of their steps failed; and so does the cached probe of the
\* hub, unless the last one to begin was of another address or began while
\* another was being probed.
THEOREM SettingsAgree ==
  SettingsSpec => []ShellAgrees
<1>1. SettingsInv => ShellAgrees
  <2> SUFFICES ASSUME SettingsTyped, Progress, Probed,
                      \A t \in Threads : ~Busy(t), ~overlapped, ~unsaved
               PROVE  /\ disk = memory /\ engine_config = memory
                      /\ engine_source = BuildSource(memory)
                      /\ pin = memory.always_on_top
                      /\ Running => memory.server_enabled /\ server = Handle(memory)
                      /\ (/\ memory.source_kind = "hub" /\ spawned = 0
                          /\ probes = NoProbes /\ ~raced)
                           => hub_status = memory.hub_url
    BY DEF SettingsInv, ShellAgrees
  <2>1. Applied(memory, memory, {}) /\ Served(memory, memory, {})
    BY DEF Progress
  <2>2. /\ disk = memory /\ engine_config = memory
        /\ engine_source = BuildSource(memory)
        /\ pin = memory.always_on_top
    BY <2>1 DEF Applied
  <2>3. Running => memory.server_enabled /\ server = Handle(memory)
    BY <2>1 DEF Served, ServerOf
  <2>4. ~WillProbe
    BY TodoTuples DEF Busy, Threads, WillProbe, Left
  <2>5. QED
    BY <2>2, <2>3, <2>4 DEF Probed
<1>2. QED
  BY <1>1, SettingsInvAlways, PTL

\* The file says that the server is enabled or not only as it runs or not:
\* whoever changes that in the file has changed the server before.
THEOREM DiskFollowsServer ==
  SettingsSpec => PersistedFollowsServer
<1>1. SettingsInv /\ [SettingsNext]_shellVars
        => [disk'.server_enabled # disk.server_enabled /\ ~overlapped
            => disk'.server_enabled = Running]_shellVars
  <2> SUFFICES ASSUME SettingsTyped, Progress, [SettingsNext]_shellVars,
                      disk'.server_enabled # disk.server_enabled, ~overlapped
               PROVE  disk'.server_enabled = Running
    BY DEF SettingsInv
  <2>1. PICK t \in Threads : disk' # disk /\ (Save(t) \/ TrySave(t))
    BY Zenon DEF SettingsNext, shellVars, SetConfig, PickStateFile, ApplyAlwaysOnTop,
       SetCollapseStyle, SetMemory, SetEngine, RestartSource, ApplyServerChange,
       StartServer, RestartServer, RestoreServer, serverOnly, RefreshHubStatus,
       GetHubStatus, ProbeHub, probeOnly, Relaunch
  <2>2. PICK step \in SaveSteps : At(t, step) /\ disk' = job[t].next
    BY <2>1, Zenon DEF Save, TrySave, SaveSteps
  <2>3. /\ Busy(t) /\ step \in Left(t) /\ JobFits(t)
        /\ t = "main" => Left(t) \cap ServerSteps = {}
    BY <2>2, AtStep DEF InOrder, Left
  <2>4. Held(job[t].prev, job[t].next, Left(t))
    BY <2>2, AtProgress
  <2>5. step \in SaveSteps \cap Left(t)
    BY <2>2, <2>3
  <2>6. disk.server_enabled = job[t].prev.server_enabled
    BY <2>4, <2>5 DEF Held
  <2>7. t = "main"
    BY <2>2, <2>3, <2>6 DEF JobFits, ServerFieldsChanged
  <2>8. QED
    BY <2>2, <2>3, <2>4, <2>5, <2>6, <2>7 DEF Held
<1>2. QED
  BY <1>1, SettingsInvAlways, PTL DEF SettingsSpec, PersistedFollowsServer

-----------------------------------------------------------------------------
(***************************************************************************)
(* The parts together.                                                     *)
(***************************************************************************)

\* What holds of each part alone holds of it in the shell, whose steps are
\* steps of one part.
LEMMA PartsOfShell ==
  ShellSpec => Spec /\ SettingsSpec /\ DevicesSpec /\ WindowSpec
<1>1. ShellInit => Init /\ SettingsInit /\ DevicesInit /\ WindowInit
  BY DEF ShellInit
<1>2. [ShellNext]_shellAll => /\ [Next]_vars /\ [SettingsNext]_shellVars
                              /\ [DevicesNext]_deviceVars /\ [WindowNext]_windowVars
  BY DEF ShellNext, WriteStep, SettingsStep, DevicesStep, WindowStep, shellAll
<1>3. QED
  BY <1>1, <1>2, PTL DEF ShellSpec, Spec, SettingsSpec, DevicesSpec, WindowSpec

\* A behaviour of the shell is one of one part.
OnePart == part \in {"write", "settings", "devices", "window"}

LEMMA OnePartMoves == ShellSpec => []OnePart
<1>1. ShellInit => OnePart
  BY DEF ShellInit, OnePart
<1>2. OnePart /\ [ShellNext]_shellAll => OnePart'
  BY DEF ShellNext, WriteStep, SettingsStep, DevicesStep, WindowStep, shellAll, OnePart
<1>3. QED
  BY <1>1, <1>2, PTL DEF ShellSpec

\* The files, the settings, the devices and the window keep their types,
\* whichever of them moves (MCShell).
THEOREM ShellTypeCorrect == ShellSpec => []ShellTypeOK
<1>1. /\ OnePart /\ TypeOK /\ SettingsTypeOK /\ DevicesTypeOK /\ WindowTypeOK
      => ShellTypeOK
  BY Zenon DEF OnePart, ShellTypeOK
<1>2. QED
  BY <1>1, OnePartMoves, PartsOfShell, FileTypeCorrect, SettingsTypeCorrect,
     DevicesTypeCorrect, WindowTypeCorrect, PTL

\* All that the run of the shell checks holds together: settings, engine and
\* server agree after any failed step, and the cached probe does with the
\* exception that ShellAgrees names; what a paired device was told is on file,
\* with those FileKeepsUp and AnswersLast name; a click always acts and the
\* window goes back to where it was (Settings, Devices, Window).
THEOREM ShellKeepsItsWord ==
  ShellSpec => /\ [](ShellAgrees /\ FileKeepsUp /\ AnswersLast /\ ClickIsNeverANoOp)
               /\ PersistedFollowsServer /\ CollapseRestores
<1>1. QED
  BY PartsOfShell, SettingsAgree, DevicesFileKeepsUp, DevicesAnswersLast,
     ClickAlwaysActs, DiskFollowsServer, CollapseIsExact, PTL

\* And when every call has a temporary name of its own, replacing a file is
\* atomic in the shell too (FileReplace).
THEOREM ShellFilesAreWhole ==
  ASSUME OwnName
  PROVE  ShellSpec => []PathIsWhole /\ FileIsAtomic
<1>1. QED
  BY PartsOfShell, StoreIsWhole, ReplaceIsAtomic, PTL

=============================================================================
