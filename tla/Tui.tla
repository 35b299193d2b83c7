--------------------------------- MODULE Tui ---------------------------------
(***************************************************************************)
(* The terminal interface (internal/tui): one Update per message, so keys  *)
(* and the result of a run, which arrives on its own time, interleave.     *)
(* The list and viewport widgets are left out: which item a list has under *)
(* its cursor is any of its items.                                         *)
(***************************************************************************)
EXTENDS Integers, FiniteSets

CONSTANTS Plugins,      \* registered plugins
          Subcommands,  \* plugin -> its subcommands, each of one plugin
          Fields,       \* plugin -> how many flag inputs its form has
          MaxRuns,      \* bound: runs started
          None

VARIABLES
    state,     \* the screen
    showHelp,  \* the overlay
    plugin,    \* selectedPlugin
    subcmd,    \* selectedSubcmd
    listed,    \* the subcommands in subcmdList
    filled,    \* the inputs of the form that hold text
    focus,     \* focusIndex
    runs,      \* runners that have not returned: what each was called with
    result,    \* what the run whose result was last received was called with
    started    \* runs started

vars == <<state, showHelp, plugin, subcmd, listed, filled, focus, runs, result, started>>
form == <<plugin, subcmd, listed, filled, focus>>
run  == <<runs, result, started>>

Init ==
    /\ state = "pluginList" /\ showHelp = FALSE
    /\ plugin = None /\ subcmd = None /\ listed = {}
    /\ filled = {} /\ focus = 0
    /\ runs = {} /\ result = None /\ started = 0

Goes(from, to) ==
    /\ state = from /\ state' = to
    /\ UNCHANGED showHelp

---------------------------------------------------------------------------
(* Keys, while the help overlay is not up.                                 *)

\* selectSubcmd: a fresh form.
selectSubcmd(sc) ==
    /\ subcmd' = sc /\ filled' = {} /\ focus' = 0
    /\ UNCHANGED run

\* A plugin with one subcommand has no list to choose from.
selectPlugin(p) ==
    /\ ~showHelp
    /\ plugin' = p
    /\ IF Cardinality(Subcommands[p]) = 1
       THEN /\ Goes("pluginList", "flagForm")
            /\ \E sc \in Subcommands[p] : selectSubcmd(sc)
            /\ UNCHANGED listed
       ELSE /\ Goes("pluginList", "subcmdList")
            /\ listed' = Subcommands[p]
            /\ UNCHANGED <<subcmd, filled, focus, run>>

ChooseSubcmd(sc) ==
    /\ ~showHelp /\ sc \in listed
    /\ Goes("subcmdList", "flagForm")
    /\ selectSubcmd(sc)
    /\ UNCHANGED <<plugin, listed>>

\* Mutant of Back: esc also leaves a run behind.
BackFromAnywhere ==
    /\ ~showHelp
    /\ \/ Goes("flagForm", "subcmdList")
       \/ \E s \in {"subcmdList", "running", "result"} : Goes(s, "pluginList")
    /\ UNCHANGED <<form, run>>

\* esc
Back ==
    /\ ~showHelp
    /\ \/ Goes("flagForm", "subcmdList")
       \/ \E s \in {"subcmdList", "result"} : Goes(s, "pluginList")
    /\ UNCHANGED <<form, run>>

Size == IF plugin = None THEN 0 ELSE Fields[plugin]

\* tab and shift+tab
moveFocus(delta) ==
    /\ ~showHelp /\ state = "flagForm" /\ Size > 0
    /\ focus' = (focus + delta + Size) % Size
    /\ UNCHANGED <<state, showHelp, plugin, subcmd, listed, filled, run>>

\* Text reaches the input in focus; it may also be deleted.
Type ==
    /\ ~showHelp /\ state = "flagForm" /\ focus < Size
    /\ filled' \in {filled \cup {focus}, filled \ {focus}}
    /\ UNCHANGED <<state, showHelp, plugin, subcmd, listed, focus, run>>

\* What the runner is given is fixed when it starts.
Call == [plugin |-> plugin, subcmd |-> subcmd, flags |-> filled]

\* enter on the form, whatever the focus (isReadyToRun), and r on a result.
submitForm ==
    /\ ~showHelp /\ started < MaxRuns
    /\ Goes("flagForm", "running") \/ Goes("result", "running")
    /\ runs' = runs \cup {[call |-> Call, n |-> started + 1]}
    /\ started' = started + 1
    /\ UNCHANGED <<form, result>>

\* q and ctrl+c.  On the form q is text, and while a plugin runs neither is
\* handled.
Quit ==
    /\ ~showHelp
    /\ \E s \in {"pluginList", "subcmdList", "flagForm", "result"} : Goes(s, "quit")
    /\ UNCHANGED <<form, run>>

---------------------------------------------------------------------------
(* The overlay takes every key; q and ctrl+c quit from it, even from a run. *)

Help ==
    /\ ~showHelp /\ state \notin {"flagForm", "quit"}
    /\ showHelp' = TRUE
    /\ UNCHANGED <<state, form, run>>

CloseHelp ==
    /\ showHelp /\ state # "quit"
    /\ showHelp' = FALSE
    /\ UNCHANGED <<state, form, run>>

QuitFromHelp ==
    /\ showHelp /\ state # "quit" /\ state' = "quit"
    /\ UNCHANGED <<showHelp, form, run>>

---------------------------------------------------------------------------

\* resultMsg, on whatever screen it finds: the screen becomes the result's.
Result(r) ==
    /\ state # "quit"
    /\ state' = "result"
    /\ result' = r.call
    /\ runs' = runs \ {r}
    /\ UNCHANGED <<showHelp, form, started>>

Next ==
    \/ \E p \in Plugins : selectPlugin(p)
    \/ \E sc \in listed : ChooseSubcmd(sc)
    \/ Back \/ Type \/ submitForm \/ Quit \/ Help \/ CloseHelp \/ QuitFromHelp
    \/ \E delta \in {-1, 1} : moveFocus(delta)
    \/ \E r \in runs : Result(r)

Spec == Init /\ [][Next]_vars

---------------------------------------------------------------------------

Calls == [plugin : Plugins, subcmd : UNION {Subcommands[p] : p \in Plugins},
          flags : SUBSET Nat]

TypeOK ==
    /\ state \in {"pluginList", "subcmdList", "flagForm", "running", "result", "quit"}
    /\ showHelp \in BOOLEAN
    /\ plugin \in Plugins \cup {None}
    /\ filled \subseteq 0..Size
    /\ focus \in 0..Size
    /\ result = None \/ result \in Calls
    /\ started \in 0..MaxRuns

\* The result on the screen is that of what is selected and typed in, so that
\* "r" runs the same again and no result of an earlier run can take its place:
\* nothing leaves the running screen but that run's result (model.go:198,
\* 346-429), so two runs are never under way.
ResultIsOfTheForm ==
    /\ state = "result" => result = Call
    /\ state # "quit" => Cardinality(runs) <= 1
=============================================================================
