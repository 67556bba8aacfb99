--------------------------- MODULE TorrentDetails ---------------------------
(***************************************************************************)
(* The details of a torrent in the page of the Web UI: the selection in    *)
(* the list (TorrentGrid.js), the panel that follows it (DetailsPanel.js), *)
(* the tab with the options of the torrent and what was typed there and    *)
(* not applied yet (OptionsTab.js, MultiOptionsManager.js), and the tab    *)
(* with the tree of its files (FilesTab.js).                               *)
(*                                                                         *)
(* The page runs one handler at a time.  The panel clears its tabs 100 ms  *)
(* after it was told to, the tabs ask for their torrent at every poll, and *)
(* an answer does not say whom it is about: the tab takes it for the       *)
(* torrent it is on by then.                                               *)
(*                                                                         *)
(* A check box or a spinner reports at once what a text field reports when *)
(* it is left: Type and Leave in a row.  Left out: the tabs that show only *)
(* (status, details, peers), types of values, the directories of a tree,   *)
(* and failed requests, to which the tabs do nothing.                      *)
(***************************************************************************)
EXTENDS Naturals, Bags

CONSTANTS
  Torrents,      \* torrents of the daemon
  None,          \* no torrent: null
  Options,       \* fields of the options tab
  TextOptions,   \* those whose default is the empty text
  NoOption,      \* no field
  Values,        \* values of an option; 0 is the default of the manager
  MaxActs,      \* steps of the user, and changes made by others
  MaxClears,     \* clears that wait for their 100 ms
  MaxMessages    \* requests and answers under way beyond which no poll is made

ASSUME DetailsAssumption ==
  /\ None \notin Torrents
  /\ TextOptions \subseteq Options /\ NoOption \notin Options
  /\ 0 \in Values /\ Values \subseteq Nat
  /\ {MaxActs, MaxClears, MaxMessages} \subseteq Nat

VARIABLES
  torrents,   \* the daemon: its torrents
  daemon,     \* the daemon: the options of each
  grid,       \* TorrentGrid: torrents shown
  selection,  \* its selection model: torrents selected,
  first,      \* and the one selected first, which is getSelected()
  pressed,    \* the mouse button is down on a row
  active,     \* DetailsPanel: the active tab
  enabled,    \* its tabs are enabled
  clears,     \* deferred calls of its tabs' clear
  narrowed,   \* history: the first of several selected torrents has left the
              \* selection, of which the panel is told at the next poll only
  torrentId,  \* OptionsTab.torrentId
  currentId,  \* MultiOptionsManager: the id it is bound to,
  stored,     \* of an id: what the daemon said, where it is not the default,
  changed,    \* of an id: what was typed,
  field,      \* the fields bound to it,
  focused,    \* the one that has the focus,
  start,      \* and what was in it when it got it
  filesId,    \* FilesTab.torrentId
  tree,       \* the torrent whose files are in the tree
  asked, answered,   \* under way
  acts       \* bound: steps of the user and of others so far

listVars == <<grid, selection, first, pressed>>
panelVars == <<active, enabled, clears, narrowed>>
managerVars == <<currentId, stored, changed, field, focused, start>>
optionsVars == <<torrentId, managerVars>>
filesVars == <<filesId, tree>>
daemonVars == <<torrents, daemon>>
detailsVars == <<listVars, panelVars, optionsVars, filesVars, daemonVars,
          asked, answered, acts>>

Ids == Torrents \cup {None}
Some == UNION {[S -> Values] : S \in SUBSET Options}   \* values of some options
Nothing == [o \in {} |-> 0]
With(f, o, v) == [p \in DOMAIN f \cup {o} |-> IF p = o THEN v ELSE f[p]]
Without(f, o) == [p \in DOMAIN f \ {o} |-> f[p]]

DetailsInit ==
  /\ torrents = Torrents /\ daemon \in [Torrents -> [Options -> Values]]
  /\ grid = Torrents /\ selection = {} /\ first = None /\ pressed = FALSE
  /\ active \in {"options", "files"} /\ enabled = TRUE /\ clears = 0
  /\ narrowed = FALSE
  /\ torrentId = None /\ currentId = None
  /\ stored = [t \in Ids |-> Nothing] /\ changed = [t \in Ids |-> Nothing]
  /\ field = [o \in Options |-> 0] /\ focused = NoOption /\ start = 0
  /\ filesId = None /\ tree = None
  /\ asked = EmptyBag /\ answered = EmptyBag
  /\ acts = 0

-----------------------------------------------------------------------------
(* MultiOptionsManager.  The empty text counts as no value.                *)
IsEmpty(o, v) == o \in TextOptions /\ v = 0
IsDirty(id, o) == o \in DOMAIN changed[id] /\ ~IsEmpty(o, changed[id][o])
Has(id, o) == o \in DOMAIN stored[id] /\ ~IsEmpty(o, stored[id][o])
GetDefault(id, o) == IF Has(id, o) THEN stored[id][o] ELSE 0
GetValue(id, o) == IF IsDirty(id, o) THEN changed[id][o] ELSE GetDefault(id, o)

(* Every field, the one that has the focus too, shows the new id's value.  *)
ChangeId(id) ==
  /\ currentId' = id
  /\ field' = [o \in Options |-> GetValue(id, o)]
  /\ UNCHANGED <<stored, changed, focused, start>>

(* update, when a field is left with another value than it was entered with *)
UpdateOption(o, v) ==
  changed' = [changed EXCEPT ![currentId] =
    IF v = GetValue(currentId, o) THEN @
    ELSE IF v = GetDefault(currentId, o) THEN Without(@, o) ELSE With(@, o, v)]

(* setDefault, with the values of an answer.  A field that has the focus   *)
(* or was changed keeps what it shows.                                     *)
SetDefault(values) ==
  LET New == {o \in Options : values[o] # GetDefault(currentId, o)}
  IN  /\ stored' = [stored EXCEPT ![currentId] =
                      [o \in DOMAIN @ \cup New |-> IF o \in New THEN values[o] ELSE @[o]]]
      /\ field' = [o \in Options |->
                     IF o \in New /\ o # focused /\ ~IsDirty(currentId, o)
                     THEN values[o] ELSE field[o]]

Commit ==
  /\ changed' = [changed EXCEPT ![currentId] = Nothing]
  /\ stored' = [stored EXCEPT ![currentId] = Nothing]

-----------------------------------------------------------------------------
Ask(kind, id) == SetToBag({[kind |-> kind, id |-> id, values |-> Nothing]})
OneLess(bag, x) == bag (-) SetToBag({x})

(* Mutant: the tab thinks it is on its torrent still.                      *)
ClearTabs_KeepsId ==
  /\ ChangeId(None)
  /\ tree' = None
  /\ UNCHANGED <<torrentId, filesId>>

(* clear of each tab.  That of the files keeps the id.                     *)
ClearTabs ==
  /\ IF torrentId = None THEN UNCHANGED optionsVars
                         ELSE torrentId' = None /\ ChangeId(None)
  /\ tree' = None
  /\ UNCHANGED filesId

(* OptionsTab.update and FilesTab.update, which ask for their torrent.     *)
UpdateTab(tab, t) ==
  /\ asked' = asked (+) Ask(tab, t)
  /\ IF tab = "options" /\ torrentId # t
     THEN torrentId' = t /\ ChangeId(t)
     ELSE UNCHANGED optionsVars
  /\ IF tab = "files" /\ filesId # t
     THEN filesId' = t /\ tree' = None
     ELSE UNCHANGED filesVars

(* Mutant: leaves the tabs enabled until they are cleared.                 *)
ClearPanel_StaysEnabled ==
  /\ clears' = clears + 1
  /\ narrowed' = FALSE
  /\ UNCHANGED enabled

(* DetailsPanel.clear and update                                           *)
ClearPanel ==
  /\ clears' = clears + 1
  /\ enabled' = FALSE
  /\ narrowed' = FALSE

UpdatePanel(tab) ==
  IF first = None
  THEN ClearPanel /\ UNCHANGED <<optionsVars, filesVars, asked>>
  ELSE /\ enabled' = TRUE /\ narrowed' = FALSE
       /\ UpdateTab(tab, first)
       /\ UNCHANGED clears

LateClear ==
  /\ clears > 0
  /\ clears' = clears - 1
  /\ ClearTabs
  /\ UNCHANGED <<listVars, active, enabled, narrowed, daemonVars, asked, answered, acts>>

Poll ==
  /\ clears < MaxClears
  /\ BagCardinality(asked) + BagCardinality(answered) < MaxMessages
  /\ UpdatePanel(active)
  /\ UNCHANGED <<listVars, active, daemonVars, answered, acts>>

-----------------------------------------------------------------------------
(* The user.  A press anywhere takes the focus from the field first.       *)
Act == acts < MaxActs /\ acts' = acts + 1
Free == Act /\ ~pressed /\ focused = NoOption /\ clears < MaxClears

(* A disabled tab cannot be clicked.                                       *)
TabChange(tab) ==
  /\ Free
  /\ enabled /\ tab # active
  /\ active' = tab
  /\ UpdatePanel(tab)
  /\ UNCHANGED <<listVars, daemonVars, answered>>

(* The selection becomes `next'.  The panel hears when it is empty on the  *)
(* way there: a row that is selected alone deselects the others first.     *)
(* When the first one leaves, any other may be the first of the rest.      *)
Select(next, emptied) ==
  /\ selection' = next
  /\ first' \in IF next = {} THEN {None}
               ELSE IF first \in next /\ ~emptied THEN {first} ELSE next
  /\ IF emptied THEN ClearPanel
     ELSE /\ narrowed' = (narrowed \/ (first # None /\ first' # first))
          /\ UNCHANGED <<clears, enabled>>

SelectAlone(t) == Select({t}, selection # {})

(* handleMouseDown; the click follows when the button is released there.   *)
Press(t, ctrl) ==
  /\ Free
  /\ t \in grid
  /\ pressed' = TRUE
  /\ \/ /\ ctrl /\ t \in selection
        /\ Select(selection \ {t}, selection = {t})
     \/ /\ ctrl /\ t \notin selection
        /\ Select(selection \cup {t}, FALSE)
     \/ /\ ~ctrl /\ selection = {t}
        /\ UNCHANGED <<selection, first, clears, enabled, narrowed>>
     \/ /\ ~ctrl /\ selection # {t}
        /\ SelectAlone(t)
  /\ UNCHANGED <<grid, active, optionsVars, filesVars, daemonVars, asked, answered>>

Release(clicked) ==
  /\ pressed /\ pressed' = FALSE
  /\ clears < MaxClears
  /\ IF clicked THEN UpdatePanel(active)
                ELSE UNCHANGED <<enabled, clears, narrowed, optionsVars, filesVars, asked>>
  /\ UNCHANGED <<grid, selection, first, active, daemonVars, answered, acts>>

(* An arrow key, or the menu of a row: no click, the next poll tells.      *)
MoveTo(t) ==
  /\ Free
  /\ t \in grid /\ t \notin selection
  /\ SelectAlone(t)
  /\ UNCHANGED <<grid, pressed, active, optionsVars, filesVars, daemonVars,
                 asked, answered>>

CanUse(tab) == active = tab /\ enabled /\ ~pressed

Focus(o) ==
  /\ CanUse("options") /\ focused = NoOption
  /\ focused' = o /\ start' = field[o]
  /\ UNCHANGED <<listVars, panelVars, torrentId, currentId, stored, changed, field,
                 filesVars, daemonVars, asked, answered, acts>>

Type(v) ==
  /\ Act
  /\ focused # NoOption /\ v # field[focused]
  /\ field' = [field EXCEPT ![focused] = v]
  /\ UNCHANGED <<listVars, panelVars, torrentId, currentId, stored, changed, focused,
                 start, filesVars, daemonVars, asked, answered>>

Leave ==
  /\ focused # NoOption
  /\ focused' = NoOption /\ start' = 0
  /\ IF field[focused] # start THEN UpdateOption(focused, field[focused])
                               ELSE UNCHANGED changed
  /\ UNCHANGED <<listVars, panelVars, torrentId, currentId, stored, field,
                 filesVars, daemonVars, asked, answered, acts>>

Apply ==
  /\ Free
  /\ CanUse("options")
  /\ asked' = asked (+) SetToBag({[kind |-> "apply", id |-> torrentId,
                                         values |-> changed[currentId]]})
  /\ UNCHANGED <<listVars, panelVars, optionsVars, filesVars, daemonVars, answered>>

-----------------------------------------------------------------------------
(* The daemon.  To a torrent that is gone there is an error, or nothing.   *)
ServeTab(r) ==
  /\ r \in BagToSet(asked)
  /\ asked' = OneLess(asked, r)
  /\ IF r.id \notin torrents THEN UNCHANGED <<daemon, answered>>
     ELSE /\ daemon' = IF r.kind = "apply"
                       THEN [daemon EXCEPT ![r.id] = [o \in Options |->
                               IF o \in DOMAIN r.values THEN r.values[o] ELSE @[o]]]
                       ELSE daemon
          /\ answered' = answered (+) SetToBag({[r EXCEPT !.values = daemon'[r.id]]})
  /\ UNCHANGED <<listVars, panelVars, optionsVars, filesVars, torrents, acts>>

(* An answer: the options of a torrent, the files of a torrent, or that    *)
(* what was typed is applied.  A tree of another torrent stays, for the    *)
(* walk through it breaks off at the first file it does not find.          *)
ArriveAtTab(a) ==
  /\ a \in BagToSet(answered)
  /\ answered' = OneLess(answered, a)
  /\ \/ a.kind = "options" /\ SetDefault(a.values) /\ UNCHANGED <<changed, tree>>
     \/ a.kind = "apply" /\ Commit /\ UNCHANGED <<field, tree>>
     \/ /\ a.kind = "files"
        /\ tree' = IF tree = None THEN a.id ELSE tree
        /\ UNCHANGED <<changed, stored, field>>
  /\ UNCHANGED <<listVars, panelVars, torrentId, currentId, focused, start, filesId,
                 daemonVars, asked, acts>>

(* Another client sets an option; a torrent is removed.                    *)
SetByAnother(t, o, v) ==
  /\ Act
  /\ t \in torrents /\ daemon' = [daemon EXCEPT ![t][o] = v]
  /\ UNCHANGED <<listVars, panelVars, optionsVars, filesVars, torrents, asked, answered>>

RemoveTorrent(t) ==
  /\ Act
  /\ torrents' = torrents \ {t}
  /\ UNCHANGED <<listVars, panelVars, optionsVars, filesVars, daemon, asked, answered>>

(* TorrentGrid.update, onTorrentsRemoved, onDisconnect.  A reload of the   *)
(* list, for another filter, loses the selection even of what is shown.    *)
GridUpdate(shown, wipe) ==
  /\ Act
  /\ clears < MaxClears
  /\ grid' = shown
  /\ LET left == IF wipe THEN {} ELSE selection \cap shown
     IN  Select(left, left = {} /\ selection # {})
  /\ UNCHANGED <<pressed, active, optionsVars, filesVars, daemonVars, asked, answered>>

DetailsNext ==
  \/ Poll \/ LateClear
  \/ \E tab \in {"options", "files"} : TabChange(tab)
  \/ \E t \in Torrents : \E ctrl \in BOOLEAN : Press(t, ctrl)
  \/ \E clicked \in BOOLEAN : Release(clicked)
  \/ \E t \in Torrents : MoveTo(t) \/ RemoveTorrent(t)
  \/ \E o \in Options : Focus(o)
  \/ \E v \in Values : Type(v)
  \/ Leave \/ Apply
  \/ \E r \in BagToSet(asked) : ServeTab(r)
  \/ \E a \in BagToSet(answered) : ArriveAtTab(a)
  \/ \E t \in Torrents : \E o \in Options : \E v \in Values : SetByAnother(t, o, v)
  \/ \E shown \in SUBSET torrents : \E wipe \in BOOLEAN : GridUpdate(shown, wipe)

(* The page polls while it is connected (WebClient), its timers fire, and  *)
(* requests are answered.                                                  *)
DetailsFairness ==
  /\ WF_detailsVars(Poll)
  /\ WF_detailsVars(LateClear)
  /\ WF_detailsVars(\E r \in BagToSet(asked) : ServeTab(r))
  /\ WF_detailsVars(\E a \in BagToSet(answered) : ArriveAtTab(a))

DetailsSpec == DetailsInit /\ [][DetailsNext]_detailsVars /\ DetailsFairness

-----------------------------------------------------------------------------
(* What the user applies, or sets in the menu of the files, is for the     *)
(* torrent that is selected, or for none: never for another one, whatever  *)
(* of a press, a click, a poll, a late clear and a change of the tab has   *)
(* happened yet.  There is one exception, until the next poll: the first   *)
(* of several selected torrents left the selection.                        *)
ApplyIsForTheSelected ==
  /\ CanUse("options") => narrowed \/ torrentId \in {first, None}
  /\ CanUse("files") => narrowed \/ filesId \in {first, None}

(* Behind it: the tab that may be used by the next press is on the right   *)
(* torrent before that press as well, and enabled tabs without a selection *)
(* never were on any.                                                      *)
PanelInv ==
  /\ selection \subseteq Torrents
  /\ first = None <=> selection = {}
  /\ enabled /\ first = None => torrentId = None /\ filesId = None
  /\ enabled /\ ~narrowed =>
       /\ active = "options" => torrentId \in {first, None}
       /\ active = "files" => filesId \in {first, None}

(* The tab that is looked at comes to the torrent that stays selected, and *)
(* the fields are bound to it: a clear that comes late is made up for.     *)
PanelFollowsSelection ==
  \A t \in Torrents :
    /\ <>[](first = t /\ active = "options")
         => <>[](enabled /\ torrentId = t /\ currentId = t)
    /\ <>[](first = t /\ active = "files") => <>[](enabled /\ filesId = t)

-----------------------------------------------------------------------------
(* MultiOptionsManager.js:48 "Changes all the changed values to be the     *)
(* default values": what is committed should be what was applied.  It is   *)
(* what is typed by now for the torrent shown by now (OptionsTab.js:380).  *)
CommitIsOfTheApplied ==
  [][\A a \in BagToSet(answered) :
       ArriveAtTab(a) /\ a.kind = "apply" =>
         \A id \in Ids : id # a.id => changed'[id] = changed[id]]_detailsVars

(* MultiOptionsManager.js:150 "Sets the value of specified option for the  *)
(* passed in id": the answer about one torrent becomes what another one    *)
(* has (OptionsTab.js:409).                                                *)
DefaultsAreTheTorrents ==
  [][\A a \in BagToSet(answered) :
       ArriveAtTab(a) /\ a.kind = "options" =>
         \A id \in Ids : id # a.id => stored'[id] = stored[id]]_detailsVars

(* FilesTab.js:190: the priorities sent for a torrent are those of the     *)
(* tree, which a late answer may have built of another torrent (:231), and *)
(* which then stays.                                                       *)
TreeIsOfTheTorrent == CanUse("files") => tree \in {filesId, None}
=============================================================================
