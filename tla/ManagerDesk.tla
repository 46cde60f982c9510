------------------------------ MODULE ManagerDesk ------------------------------
(***************************************************************************)
(* The tools a manager agent calls on its employees: app/tools.py.         *)
(*                                                                         *)
(* A tool that writes reads the column, updates the row, and logs the      *)
(* change in manager_actions on another connection, as three statements    *)
(* with no transaction.  Reviews and meetings call tools one by one, but   *)
(* the calls of one chat turn run in parallel (asyncio.gather), and a      *)
(* review, meetings and chats of the same manager run side by side.        *)
(***************************************************************************)
EXTENDS Integers, FiniteSets, Sequences, SequencesExt, FiniteSetsExt

CONSTANTS Employees, Company,   \* the rows of agents, and the row of the company
          Fields,               \* MANAGER_ADJUSTABLE_FIELDS, some of them
          Lowest, Highest,      \* the range of a number, or of a catalogue
          Combos, NoCombo,      \* playbook entries; the entry left blank
          ToolCalls,            \* in flight at one time (bound)
          Blank                 \* NULL

ASSUME ManagerDeskConstants ==
    /\ Company \notin Employees /\ IsFiniteSet(Employees) /\ Employees # {} /\ IsFiniteSet(Combos)
    /\ Lowest \in Nat \ {0} /\ Highest \in Nat /\ Lowest <= Highest
    /\ Fields \cap {"strategies", "trade_mode", "allowed_assets", "forecasting_model",
                   "allowed_combinations", "is_paused", "daily_profit_target_usd"} = {}

VARIABLES
    column,     \* [<<row, column>> -> value]
    trailed,    \* the value after the last manager_actions entry, or edit of the CEO
    broken,     \* cells with an entry that does not begin where the one before ended
    writing,    \* tool calls: [cell, before, after, stage]
    contended   \* cells on which a call was overtaken, or died before it logged

deskVars == <<column, trailed, broken, writing, contended>>

Catalogued == {"strategies", "trade_mode", "allowed_assets", "forecasting_model"}
Cells == (Employees \X (Fields \cup Catalogued \cup {"allowed_combinations", "is_paused"}))
            \cup {<<Company, "daily_profit_target_usd">>}
Playbooks == {p \in UNION {[1..n -> Combos] : n \in 0..Cardinality(Combos)} : IsInjective(p)}
DomainOf(cell) == CASE cell[2] = "allowed_combinations" -> Playbooks
                    [] cell[2] = "is_paused" -> BOOLEAN
                    [] OTHER -> {Blank} \cup Lowest..Highest
AtFirst(cell) == CASE cell[2] = "allowed_combinations" -> <<>>
                   [] cell[2] = "is_paused" -> FALSE
                   [] OTHER -> Blank
NoCall == [cell |-> Blank, before |-> Blank, after |-> Blank, stage |-> "none"]

\* Every cell holds a value of its column, and every call in flight is about to
\* store or log one: no handler stores what its validation should have refused,
\* and no playbook lists a combination twice, whatever calls overlap.
DeskTypeOK ==
    /\ \A x \in Cells : column[x] \in DomainOf(x) /\ trailed[x] \in DomainOf(x)
    /\ broken \subseteq Cells /\ contended \subseteq Cells
    /\ \A c \in ToolCalls : writing[c].stage # "none" =>
           /\ writing[c].stage \in {"update", "log"}
           /\ writing[c].cell \in Cells /\ writing[c].after \in DomainOf(writing[c].cell)

DeskInit ==
    /\ column = [x \in Cells |-> AtFirst(x)]
    /\ trailed = column /\ broken = {}
    /\ writing = [c \in ToolCalls |-> NoCall]
    /\ contended = {}

-----------------------------------------------------------------------------
\* available_tools declares every tool to every agent; execute_tool refuses some
\* by the caller's role.
ManagerTools == {"get_team_status", "adjust_employee", "pause_employee", "resume_employee",
                 "set_employee_strategies", "set_employee_trade_mode", "set_employee_allowed_assets",
                 "set_employee_forecasting_model", "set_company_daily_profit_target",
                 "add_strategy_combination", "clear_strategy_combinations", "hold_meeting_with_employee"}
MayCall(role, tool) == tool \in ManagerTools => role = "manager"

\* The SELECT of a write tool: the value before, and the value to store.
Reads(c, role, tool, cell, after) ==
    /\ MayCall(role, tool)
    /\ writing[c] = NoCall
    /\ writing' = [writing EXCEPT ![c] = [cell |-> cell, before |-> column[cell],
                                          after |-> after, stage |-> "update"]]
    /\ UNCHANGED <<column, trailed, broken, contended>>

\* MANAGER_ADJUSTABLE_FIELDS has a range for each field.
InRange(v) == v \in Lowest..Highest

AdjustEmployee(c, role, e, k, v) ==
    k \in Fields /\ InRange(v) /\ Reads(c, role, "adjust_employee", <<e, k>>, v)

\* Strategies, assets and models must be in their catalogues (the assets in all of
\* it, not only up to the company's tier); a trade mode is one of three.
Catalogue == Lowest..Highest
SetStrategies(c, role, e, v) ==
    v \in Catalogue /\ Reads(c, role, "set_employee_strategies", <<e, "strategies">>, v)
SetTradeMode(c, role, e, v) ==
    v \in Catalogue /\ Reads(c, role, "set_employee_trade_mode", <<e, "trade_mode">>, v)
SetAllowedAssets(c, role, e, v) ==
    v \in Catalogue /\ Reads(c, role, "set_employee_allowed_assets", <<e, "allowed_assets">>, v)
SetForecastingModel(c, role, e, v) ==
    v \in Catalogue /\ Reads(c, role, "set_employee_forecasting_model", <<e, "forecasting_model">>, v)

\* Zero clears the target.
SetCompanyTarget(c, role, v) ==
    /\ v \in {0, Blank} \cup Lowest..Highest
    /\ Reads(c, role, "set_company_daily_profit_target", <<Company, "daily_profit_target_usd">>,
             IF v = 0 THEN Blank ELSE v)

\* A combination already in the list is not added again; the mutant adds it.
MutantIsNew(p, x) == x # NoCombo
IsNew(p, x) == x # NoCombo /\ ~Contains(p, x)

AddCombination(c, role, e, x) ==
    /\ IsNew(column[<<e, "allowed_combinations">>], x)
    /\ Reads(c, role, "add_strategy_combination", <<e, "allowed_combinations">>,
             Append(column[<<e, "allowed_combinations">>], x))

ClearCombinations(c, role, e) ==
    Reads(c, role, "clear_strategy_combinations", <<e, "allowed_combinations">>, <<>>)

\* Calls on the same cell that the UPDATE of c overtakes or is overtaken by.
Rivals(c, cell) == {d \in ToolCalls \ {c} : writing[d].cell = cell}
Overtakes(c) == LET w == writing[c] IN
    column[w.cell] # w.before \/ \E d \in Rivals(c, w.cell) : writing[d].stage = "log"

Update(c) ==
    /\ writing[c].stage = "update"
    /\ column' = [column EXCEPT ![writing[c].cell] = writing[c].after]
    /\ contended' = IF Overtakes(c) THEN contended \cup {writing[c].cell} ELSE contended
    /\ writing' = [writing EXCEPT ![c].stage = "log"]
    /\ UNCHANGED <<trailed, broken>>

\* _pause_employee and _resume_employee UPDATE at once, and log no values.
SetPaused(c, role, e, on) ==
    LET cell == <<e, "is_paused">> IN
    /\ MayCall(role, IF on THEN "pause_employee" ELSE "resume_employee")
    /\ writing[c] = NoCall
    /\ column' = [column EXCEPT ![cell] = on]
    /\ contended' = IF Rivals(c, cell) # {} THEN contended \cup {cell} ELSE contended
    /\ writing' = [writing EXCEPT ![c] = [cell |-> cell, before |-> column[cell],
                                          after |-> on, stage |-> "log"]]
    /\ UNCHANGED <<trailed, broken>>

\* What _log_action is given.  The mutant logs the old value as the new one.
MutantLogged(w) == [before |-> w.before, after |-> w.before]
Logged(w) == [before |-> w.before, after |-> w.after]

LogAction(c) ==
    LET w == writing[c] IN
    /\ w.stage = "log"
    /\ broken' = IF Logged(w).before # trailed[w.cell] THEN broken \cup {w.cell} ELSE broken
    /\ trailed' = [trailed EXCEPT ![w.cell] = Logged(w).after]
    /\ writing' = [writing EXCEPT ![c] = NoCall]
    /\ UNCHANGED <<column, contended>>

\* The statement fails or the process restarts; execute_tool answers with an error.
CallDies(c) ==
    /\ writing[c].stage # "none"
    /\ contended' = IF writing[c].stage = "log" THEN contended \cup {writing[c].cell} ELSE contended
    /\ writing' = [writing EXCEPT ![c] = NoCall]
    /\ UNCHANGED <<column, trailed, broken>>

\* The CEO edits the row with PATCH, which writes no manager_actions; a call in
\* flight on the cell is overtaken.
CeoEdits(x, v) ==
    /\ x[1] \in Employees /\ v \in DomainOf(x) /\ v # column[x]
    /\ column' = [column EXCEPT ![x] = v] /\ trailed' = [trailed EXCEPT ![x] = v]
    /\ contended' = IF \E c \in ToolCalls : writing[c].cell = x THEN contended \cup {x} ELSE contended
    /\ UNCHANGED <<writing, broken>>

ToolStep(c, role) ==
    \/ \E e \in Employees, v \in 0..Highest + 1 :
          \/ \E k \in Fields : AdjustEmployee(c, role, e, k, v)
          \/ SetStrategies(c, role, e, v) \/ SetTradeMode(c, role, e, v)
          \/ SetAllowedAssets(c, role, e, v) \/ SetForecastingModel(c, role, e, v)
    \/ \E v \in {Blank} \cup 0..Highest : SetCompanyTarget(c, role, v)
    \/ \E e \in Employees, x \in Combos \cup {NoCombo} : AddCombination(c, role, e, x)
    \/ \E e \in Employees : ClearCombinations(c, role, e)
    \/ \E e \in Employees, on \in BOOLEAN : SetPaused(c, role, e, on)

DeskNext ==
    \/ \E c \in ToolCalls, role \in {"manager", "employee"} : ToolStep(c, role)
    \/ \E c \in ToolCalls : Update(c) \/ LogAction(c) \/ CallDies(c)
    \/ \E x \in Cells : \E v \in DomainOf(x) : CeoEdits(x, v)

DeskSpec == DeskInit /\ [][DeskNext]_deskVars

-----------------------------------------------------------------------------
\* Whoever replays the trail of a cell finds the value the row holds, each entry
\* starting where the last one ended: a change that was not overtaken by another
\* and did not die between its UPDATE and its _log_action is in the trail once,
\* with the value it replaced.
TrailReplays ==
    \A x \in Cells \ contended :
        /\ x \notin broken
        /\ column[x] = trailed[x] \/ \E c \in ToolCalls : writing[c].cell = x /\ writing[c].stage = "log"
=============================================================================
