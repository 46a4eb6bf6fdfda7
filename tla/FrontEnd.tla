------------------------------ MODULE FrontEnd ------------------------------
(***************************************************************************)
(* A report in the browser (src/html_files).  Every tab is filled when it  *)
(* is opened, and most of what it shows is drawn by callbacks that are put *)
(* off with setTimeout(.., 0): the user may open other tabs and press      *)
(* radio buttons before they run.  All tabs share the limits of graphs     *)
(* (key_limits) and the CPUs chosen under Configure (run_config).          *)
(***************************************************************************)
EXTENDS Integers, Sequences, FiniteSets, FiniteSetsExt, SequencesExt

CONSTANTS Reports,   \* the reports that may be looked at: what each of their runs holds
          Nested,    \* settings in a subgroup of the kernel configuration
          MaxClicks  \* bound on the tabs opened and radio buttons pressed

\* The graphs of a key are between the least and the greatest value it had.
ASSUME Collected ==
    \A runs \in Reports :
        /\ runs \in Seq(ToSet(runs))
        /\ \A r \in DOMAIN runs :
              /\ runs[r].cpus \in Nat
              /\ runs[r].keys \in Seq(ToSet(runs[r].keys))
              /\ DOMAIN runs[r].limits = ToSet(runs[r].keys)
              /\ \A k \in DOMAIN runs[r].limits :
                    /\ runs[r].limits[k] \in [low : Nat, high : Nat]
                    /\ runs[r].limits[k].low <= runs[r].limits[k].high

VARIABLES report,     \* the *_raw_data of the runs, in the order of runs_raw
          view,       \* the tab in view
          radio,      \* the radio button checked in each tab
          got,        \* tabs whose got_*_data is true
          status,     \* what a tab was last drawn for: *_hide_*, current_*_status, got_*_data
          key_limits, \* the tab the limits were formed for, and the limits of its keys
          run_config, \* the CPUs selected of each run that has CPU data, and two flags
          cpu_lists,  \* the *_cpu_list of the tabs that show CPUs
          page,       \* what each tab shows of each run
          findings,   \* the rules whose findings are shown
          pending,    \* callbacks put off, oldest first
          clicks

vars == <<report, view, radio, got, status, key_limits, run_config, cpu_lists, page,
          findings, pending, clicks>>

HideTabs == {"meminfo", "vmstat", "disk_stats", "netstat"}
LimitTabs == HideTabs \cup {"aperfstat", "perfstat"}
CpuTabs == {"cpu_utilization", "interrupts", "perfstat"}
DiffTabs == {"kernel_config", "sysctl"}
TextTabs == {"top_functions", "aperfrunlog", "processes"}
DataTypes == LimitTabs \cup CpuTabs \cup DiffTabs \cup TextTabs
             \cup {"system_info", "flamegraphs", "configure"}

\* The radio buttons of a tab, the one checked at first in front.
Buttons(t) == CASE t \in HideTabs -> <<"yes", "no">>
                [] t \in DiffTabs -> IF Len(report) = 1 THEN <<"no", "yes">> ELSE <<"yes", "no">>
                [] t = "system_info" -> <<"findings", "sutconfig">>
                [] t = "flamegraphs" -> <<"flamegraphs", "javaprofile">>
                [] OTHER -> <<"none">>

Runs == DOMAIN report
AllRuns == [r \in Runs |-> r]
\* Runs are visited in order, and an exception at one of them ends the handler there.
Until(throwing) == IF throwing = {} THEN AllRuns ELSE SubSeq(AllRuns, 1, Min(throwing) - 1)
-----------------------------------------------------------------------------
(* utils.ts *)

KeysOf(r) == ToSet(report[r].keys)
KeySet == UNION {KeysOf(r) : r \in Runs}
WithKey(k) == {r \in Runs : k \in KeysOf(r)}

Lowest(k) == Min({report[r].limits[k].low : r \in WithKey(k)})
Highest(k) == Max({report[r].limits[k].high : r \in WithKey(k)})

Widened(low, high) ==
    LET extra == (high - low) \div 10
    IN [low |-> IF low # 0 /\ low - extra >= 0 THEN low - extra ELSE 0, high |-> high + extra]

form_graph_limits(t) ==
    key_limits' = [tab |-> t, of |-> [k \in KeySet |-> Widened(Lowest(k), Highest(k))]]

\* A key the runs before did not have goes where this run has it.
WithKeyAt(all, j, k) == IF Contains(all, k) THEN all
                        ELSE InsertAt(all, Min({j, Len(all) + 1}), k)
Spliced(all, keys) ==
    LET upTo[j \in 0..Len(keys)] == IF j = 0 THEN all ELSE WithKeyAt(upTo[j - 1], j, keys[j])
    IN upTo[Len(keys)]
all_run_keys ==
    LET upTo[r \in 0..Len(report)] == IF r = 0 THEN <<>> ELSE Spliced(upTo[r - 1], report[r].keys)
    IN upTo[Len(report)]

\* Mutant: graphs are hidden whether the user asked for it or not.
canHide_Always(hide, k) == key_limits'.of[k].low = 0 /\ key_limits'.of[k].high = 0
canHide(hide, k) == /\ hide = "yes"
                    /\ key_limits'.of[k].low = 0
                    /\ key_limits'.of[k].high = 0

isDiffAcrossRuns(name) ==
    \E r \in Runs : report[r].settings[name] # report[1].settings[name]

checkIsCommonKey(name) == \A r \in Runs : name \in DOMAIN report[r].settings

common_keys == {name \in UNION {DOMAIN report[r].settings : r \in Runs} : checkIsCommonKey(name)}

\* Mutant: a run is compared with the first one only.
diff_keys_FromFirst(r) == {name \in DOMAIN report[r].settings :
                              name \notin DOMAIN report[1].settings}
diff_keys(r) == {name \in DOMAIN report[r].settings : ~checkIsCommonKey(name)}

isCPUListUnchanged(t, r) == cpu_lists[t][r] = run_config[r].cpu_list
\* Mutant: one run whose list has not changed is enough.
allRunCPUListUnchanged_One(t) == \E r \in Runs : isCPUListUnchanged(t, r)
allRunCPUListUnchanged(t) == \A r \in Runs : isCPUListUnchanged(t, r)
-----------------------------------------------------------------------------
(* What is put off.  A callback that draws a graph holds the element it    *)
(* draws on: when the tab is cleared the element is no longer part of the  *)
(* page and what the callback draws is never seen.  The others look their  *)
(* container up by its name when they run.                                 *)

Callback(t, r, what) == [tab |-> t, run |-> r, what |-> what]
Callbacks(t, runs, what) ==
    FlattenSeq([i \in DOMAIN runs |-> [j \in DOMAIN what[runs[i]] |->
                   Callback(t, runs[i], what[runs[i]][j])]])

\* The elements of a sequence that are in a set, in their order.
KeptIf(kept, x, S) == IF x \in S THEN Append(kept, x) ELSE kept
Kept(s, S) ==
    LET kept[n \in 0..Len(s)] == IF n = 0 THEN <<>> ELSE KeptIf(kept[n - 1], s[n], S)
    IN kept[Len(s)]

Held(t) == t \in LimitTabs \cup CpuTabs
StillPending(t) == Kept(pending, {c \in ToSet(pending) : ~(c.tab = t /\ Held(t))})

clear_and_create(t) == [page EXCEPT ![t] = [r \in Runs |-> {}]]
Graph(k, low, high, cpus) == [key |-> k, low |-> low, high |-> high, cpus |-> cpus]
Text(k, v) == [key |-> k, value |-> v]

Nothing == UNCHANGED <<got, status, key_limits, run_config, cpu_lists, page, findings, pending>>
-----------------------------------------------------------------------------
(* The tabs with a graph for each key of any of the runs. *)

Elements(t, hide) == Kept(all_run_keys, {k \in KeySet : ~canHide(hide, k)})

GraphTab(t, hide) ==
    \/ t \in got /\ hide = status[t] /\ Nothing
    \/ /\ t \notin got \/ hide # status[t]
       /\ status' = [status EXCEPT ![t] = hide]
       /\ form_graph_limits(t)
       /\ page' = clear_and_create(t)
       /\ pending' = StillPending(t) \o Callbacks(t, AllRuns, [r \in Runs |-> Elements(t, hide)])
       /\ got' = got \cup {t}
       /\ UNCHANGED <<run_config, cpu_lists, findings>>

meminfo(hide) == GraphTab("meminfo", hide)
vmStat(hide) == GraphTab("vmstat", hide)
diskStats(hide) == GraphTab("disk_stats", hide)
netStat(hide) == GraphTab("netstat", hide)

\* A run without keys gets a line of text instead of graphs.
ElementsIfAny == [r \in Runs |-> IF KeysOf(r) = {} THEN <<>> ELSE all_run_keys]

aperfStat ==
    \/ "aperfstat" \in got /\ Nothing
    \/ /\ "aperfstat" \notin got
       /\ form_graph_limits("aperfstat")
       /\ page' = clear_and_create("aperfstat")
       /\ pending' = pending \o Callbacks("aperfstat", AllRuns, ElementsIfAny)
       /\ got' = got \cup {"aperfstat"}
       /\ UNCHANGED <<status, run_config, cpu_lists, findings>>
-----------------------------------------------------------------------------
(* The tabs that show the CPUs chosen.  A run for which there is no        *)
(* run_config ends the handler with an exception.                          *)

Configured == Until(Runs \ DOMAIN run_config)

getCPUList(t) == [cpu_lists EXCEPT ![t] =
                     [r \in Runs |-> IF r \in ToSet(Configured) THEN run_config[r].cpu_list ELSE @[r]]]

CpuTab(t, keys) ==
    \/ t \in got /\ allRunCPUListUnchanged(t) /\ Nothing /\ UNCHANGED key_limits
    \/ /\ t \in got => ~allRunCPUListUnchanged(t)
       /\ page' = clear_and_create(t)
       /\ cpu_lists' = getCPUList(t)
       /\ pending' = StillPending(t) \o Callbacks(t, Configured, keys)
       /\ got' = IF Configured = AllRuns THEN got \cup {t} ELSE got
       /\ IF t \in LimitTabs THEN form_graph_limits(t) ELSE UNCHANGED key_limits
       /\ UNCHANGED <<status, run_config, findings>>

cpuUtilization == CpuTab("cpu_utilization", [r \in Runs |-> <<"user">>])
interrupts == CpuTab("interrupts", [r \in Runs |-> report[r].keys])
perfStat == CpuTab("perfstat", ElementsIfAny)
-----------------------------------------------------------------------------
(* Kernel configuration and sysctl: all settings of each run, or only the  *)
(* ones in which the runs differ.  A run without them is an exception at   *)
(* the first reading, which leaves the tab as it was.                      *)

Diff(r) == {Text(name, report[r].settings[name]) :
               name \in {n \in common_keys : isDiffAcrossRuns(n)} \cup diff_keys(r)}
NoDiff(r, names) == {Text(name, report[r].settings[name]) :
                        name \in DOMAIN report[r].settings \cap names}

ConfigTab(t, diff, later) ==
    \/ t \in got /\ status[t] = diff /\ Nothing
    \/ /\ t \notin got \/ status[t] # diff
       /\ status' = [status EXCEPT ![t] = diff]
       /\ \/ /\ \E r \in Runs : "settings" \notin report[r].has
             /\ UNCHANGED <<got, page, pending>>
          \/ /\ \A r \in Runs : "settings" \in report[r].has
             /\ page' = [page EXCEPT ![t] = [r \in Runs |->
                            IF diff = "yes" THEN Diff(r)
                            ELSE NoDiff(r, DOMAIN report[r].settings \ later)]]
             /\ pending' = IF diff = "yes" \/ later = {} THEN pending
                           ELSE pending \o Callbacks(t, AllRuns, [r \in Runs |-> <<"group">>])
             /\ got' = got \cup {t}
       /\ UNCHANGED <<key_limits, run_config, cpu_lists, findings>>

sysctl(diff) == ConfigTab("sysctl", diff, {})
kernelConfig(diff) == ConfigTab("kernel_config", diff, Nested)
-----------------------------------------------------------------------------
(* The tabs of text and pictures. *)

TextTab(t) ==
    \/ t \in got /\ Nothing
    \/ /\ t \notin got
       /\ page' = clear_and_create(t)
       /\ pending' = pending \o Callbacks(t, AllRuns, [r \in Runs |-> <<"text">>])
       /\ got' = got \cup {t}
       /\ UNCHANGED <<status, key_limits, run_config, cpu_lists, findings>>

topFunctions == TextTab("top_functions")
aperfRunlog == TextTab("aperfrunlog")

processes ==
    \/ "processes" \in got /\ Nothing
    \/ /\ "processes" \notin got
       /\ page' = [page EXCEPT !["processes"] = [r \in Runs |-> {Text("text", r)}]]
       /\ got' = got \cup {"processes"}
       /\ UNCHANGED <<status, key_limits, run_config, cpu_lists, findings, pending>>

flamegraphs(set) ==
    \/ set = status["flamegraphs"] /\ Nothing
    \/ /\ set # status["flamegraphs"]
       /\ status' = [status EXCEPT !["flamegraphs"] = set]
       /\ page' = clear_and_create("flamegraphs")
       /\ pending' = pending \o Callbacks("flamegraphs", AllRuns, [r \in Runs |-> <<set>>])
       /\ UNCHANGED <<got, key_limits, run_config, cpu_lists, findings>>
-----------------------------------------------------------------------------
(* The landing page.  A rule is called with the values of the run it       *)
(* compares with (base) and of another one (this); a value that is not     *)
(* there is undefined, here 0.                                             *)

Rule(name, data, calls) == [name |-> name, data |-> data, calls |-> calls]
system_info_rules == {Rule("Kernel Version", "system", {"all"})}
cpu_utilization_rules == {Rule("Idle", "cpu", {"single base", "per"})}
perf_stat_rules == {Rule("ipc", "perf", {"per"}), Rule("l2-mpki", "perf", {"single this"})}
all_rules == system_info_rules \cup cpu_utilization_rules \cup perf_stat_rules

HasData(rule, r) == CASE rule.data = "system" -> TRUE
                      [] rule.data = "cpu" -> r \in DOMAIN run_config
                      [] rule.data = "perf" -> KeysOf(r) # {}
ValueOf(rule, r) == IF HasData(rule, r) THEN r ELSE 0
WithData(rule) == {r \in Runs : HasData(rule, r)}

\* What opts.this_run_data may be left with after the other runs have been
\* compared, in the order of a HashMap.
LastCompared(rule) == IF Len(report) = 1 \/ WithData(rule) \subseteq {1} THEN {0}
                      ELSE WithData(rule) \ {1}

Finding(rule, about, of) == [rule |-> rule.name, about |-> about, of |-> of]
single_run_rule(rule, last) ==
    {Finding(rule, {r}, {IF "single base" \in rule.calls THEN ValueOf(rule, r)
                         ELSE last}) :
        r \in IF rule.calls \cap {"single base", "single this"} = {} THEN {} ELSE Runs}
per_run_rule(rule) == {Finding(rule, {1, r}, {ValueOf(rule, 1), r}) :
                          r \in IF "per" \in rule.calls THEN WithData(rule) \ {1} ELSE {}}
all_run_rule(rule) == {Finding(rule, WithData(rule), WithData(rule)) :
                          i \in IF "all" \in rule.calls /\ Len(report) > 1 THEN {1} ELSE {}}

analytics(last) == UNION {single_run_rule(rule, last[rule]) \cup per_run_rule(rule) \cup all_run_rule(rule) :
                             rule \in all_rules}

systemInfo(set) ==
    \/ set = status["system_info"] /\ Nothing
    \/ /\ set # status["system_info"]
       /\ page' = clear_and_create("system_info")
       /\ status' = [status EXCEPT !["system_info"] = set]
       /\ \E last \in [all_rules -> 0..Len(report)] :
             /\ \A rule \in all_rules : last[rule] \in LastCompared(rule)
             /\ findings' = IF set = "findings" THEN analytics(last) ELSE {}
       /\ pending' = IF set = "findings" THEN pending
                     ELSE pending \o Callbacks("system_info", AllRuns, [r \in Runs |-> <<"text">>])
       /\ UNCHANGED <<got, key_limits, run_config, cpu_lists>>
-----------------------------------------------------------------------------
(* Configure.  "Toggle All" is clicked once when the boxes are made. *)

AllCPUs(r) == 0..(report[r].cpus - 1)

configure ==
    \/ "configure" \in got /\ Nothing
    \/ /\ "configure" \notin got
       /\ page' = [page EXCEPT !["configure"] =
                      [r \in Runs |-> IF r \in ToSet(Configured) THEN {Text("boxes", r)} ELSE {}]]
       /\ run_config' = [r \in DOMAIN run_config |->
                            [run_config[r] EXCEPT !.cpu_list = AllCPUs(r), !.box = TRUE]]
       /\ got' = IF Configured = AllRuns THEN got \cup {"configure"} ELSE got
       /\ UNCHANGED <<status, key_limits, cpu_lists, findings, pending>>

toggleCheckbox(r, cpu) ==
    LET old == run_config[r].cpu_list
        new == IF cpu \in old THEN old \ {cpu} ELSE old \cup {cpu}
    IN run_config' = [run_config EXCEPT ![r] =
           [cpu_list |-> new, all_selected |-> new = AllCPUs(r), box |-> new = AllCPUs(r)]]

allSelect(r) ==
    run_config' = [run_config EXCEPT ![r].box = ~@,
                                     ![r].cpu_list = IF run_config[r].box THEN {} ELSE AllCPUs(r)]
-----------------------------------------------------------------------------
(* index.ts *)

display_tab(t, button) ==
    \/ t = "meminfo" /\ meminfo(button)
    \/ t = "vmstat" /\ vmStat(button)
    \/ t = "disk_stats" /\ diskStats(button)
    \/ t = "netstat" /\ netStat(button)
    \/ t = "aperfstat" /\ aperfStat
    \/ t = "perfstat" /\ perfStat
    \/ t = "cpu_utilization" /\ cpuUtilization
    \/ t = "interrupts" /\ interrupts
    \/ t = "kernel_config" /\ kernelConfig(button)
    \/ t = "sysctl" /\ sysctl(button)
    \/ t = "top_functions" /\ topFunctions
    \/ t = "aperfrunlog" /\ aperfRunlog
    \/ t = "processes" /\ processes
    \/ t = "flamegraphs" /\ flamegraphs(button)
    \/ t = "system_info" /\ systemInfo(button)
    \/ t = "configure" /\ configure

Init == /\ report \in Reports
        /\ view = "loading"
        /\ radio = [t \in DataTypes |-> Buttons(t)[1]]
        /\ got = {}
        /\ status = [t \in DataTypes |-> IF t \in HideTabs \cup DiffTabs THEN "no" ELSE "none"]
        /\ key_limits = [tab |-> "none", of |-> <<>>]
        /\ run_config = <<>>
        /\ cpu_lists = [t \in CpuTabs |-> [r \in Runs |-> {}]]
        /\ page = [t \in DataTypes |-> [r \in Runs |-> {}]]
        /\ findings = {}
        /\ pending = <<>>
        /\ clicks = 0

\* The script of the page: with a run that has no CPU data it stops before it
\* opens the landing page, though buttons work.
Load ==
    LET configured == ToSet(Until({r \in Runs : "cpu" \notin report[r].has}))
    IN /\ view = "loading"
       /\ run_config' = [r \in configured |->
              [cpu_list |-> AllCPUs(r), all_selected |-> TRUE, box |-> FALSE]]
       /\ view' = "loaded"
       /\ UNCHANGED <<report, radio, got, status, key_limits, cpu_lists, page, findings,
                      pending, clicks>>

OpenLandingPage ==
    /\ view = "loaded" /\ DOMAIN run_config = Runs
    /\ view' = "system_info"
    /\ systemInfo(radio["system_info"])
    /\ UNCHANGED <<report, radio, clicks>>

Scripted == view = "loading" \/ (view = "loaded" /\ DOMAIN run_config = Runs)
User == ~Scripted /\ UNCHANGED report
Click == clicks < MaxClicks /\ clicks' = clicks + 1

openData(t) == /\ User /\ Click
               /\ view' = t
               /\ display_tab(t, radio[t])
               /\ UNCHANGED radio

Press(t, button) == /\ User /\ Click
                    /\ view = t /\ Len(Buttons(t)) > 1
                    /\ radio' = [radio EXCEPT ![t] = button]
                    /\ display_tab(t, button)
                    /\ UNCHANGED view

ToggleCPU(r, cpu) == /\ User
                     /\ view = "configure" /\ page["configure"][r] # {}
                     /\ toggleCheckbox(r, cpu)
                     /\ UNCHANGED <<view, radio, got, status, key_limits, cpu_lists, page,
                                    findings, pending, clicks>>

ToggleAll(r) == /\ User
                /\ view = "configure" /\ page["configure"][r] # {}
                /\ allSelect(r)
                /\ UNCHANGED <<view, radio, got, status, key_limits, cpu_lists, page,
                               findings, pending, clicks>>
-----------------------------------------------------------------------------
(* The callbacks. *)

Run(c, drawn) == /\ pending # <<>> /\ c = Head(pending)
                 /\ pending' = Tail(pending)
                 /\ page' = [page EXCEPT ![c.tab][c.run] = @ \cup drawn]
                 /\ UNCHANGED <<report, view, radio, got, status, key_limits, run_config,
                                cpu_lists, findings, clicks>>

CpusShown(c) == IF c.tab \in CpuTabs THEN cpu_lists[c.tab][c.run] ELSE {}

DrawGraph(c) == /\ c.tab \in LimitTabs /\ c.what \in KeysOf(c.run)
                /\ key_limits.tab = c.tab
                /\ LET limits == key_limits.of[c.what]
                   IN Run(c, {Graph(c.what, limits.low, limits.high, CpusShown(c))})
\* key_limits has no such key any more: an exception, and no graph.
GraphFails(c) == /\ c.tab \in LimitTabs /\ c.what \in KeysOf(c.run)
                 /\ key_limits.tab # c.tab
                 /\ Run(c, {})
emptyGraph(c) == /\ c.tab \in LimitTabs /\ c.what \notin KeysOf(c.run)
                 /\ Run(c, {})
DrawCPUs(c) == /\ c.tab \in CpuTabs \ LimitTabs
               /\ Run(c, {Graph(c.what, 0, 100, CpusShown(c))})
\* A group of settings: without its element, when only differences are shown, an exception.
createEntries(c) == /\ c.tab = "kernel_config"
                    /\ Run(c, IF status[c.tab] = "no" THEN NoDiff(c.run, Nested) ELSE {})
\* The profile of a run that has none is an exception.
Unparsable(c) == /\ c.tab = "top_functions" \/ c.what = "javaprofile"
                 /\ "profile" \notin report[c.run].has
AddText(c) == /\ c.tab \in TextTabs \cup {"system_info", "flamegraphs"}
              /\ Run(c, IF Unparsable(c) THEN {} ELSE {Text(c.what, c.run)})

RunCallback == \E c \in ToSet(pending) :
    DrawGraph(c) \/ GraphFails(c) \/ emptyGraph(c) \/ DrawCPUs(c) \/ createEntries(c) \/ AddText(c)

Next == \/ Load
        \/ OpenLandingPage
        \/ \E t \in DataTypes : openData(t)
        \/ \E t \in DataTypes : \E i \in DOMAIN Buttons(t) : Press(t, Buttons(t)[i])
        \/ \E r \in DOMAIN run_config : \E cpu \in AllCPUs(r) : ToggleCPU(r, cpu)
        \/ \E r \in DOMAIN run_config : ToggleAll(r)
        \/ RunCallback

Spec == Init /\ [][Next]_vars
-----------------------------------------------------------------------------
(* Properties *)

PendingFor(t) == \E i \in DOMAIN pending : pending[i].tab = t

\* A tab of graphs that was the last to form limits is complete when its
\* callbacks have run: every run shows a graph of each of its keys, unless the
\* user hides graphs that are zero in all runs, and on a scale that holds the
\* values of all runs, so that graphs of one key can be compared
\* (form_graph_limits and emptyOrCallback, utils.ts).
GraphsComplete ==
    LET t == key_limits.tab
        Covers(g, k) == \A r \in WithKey(k) : /\ g.low <= report[r].limits[k].low
                                              /\ g.high >= report[r].limits[k].high
    IN t \in got /\ ~PendingFor(t) =>
        \A r \in Runs : \A k \in KeysOf(r) :
            \/ status[t] = "yes" /\ \A q \in WithKey(k) : report[q].limits[k] = [low |-> 0, high |-> 0]
            \/ \E g \in page[t][r] : g.key = k /\ Covers(g, k)

\* With "Diff" on, what a tab of settings shows of a run is exactly what the
\* runs do not agree on: settings that some run lacks or has otherwise
\* (split_keys and isDiffAcrossRuns, utils.ts, over whichever run comes first);
\* with it off it shows all settings, when the groups are unfolded.
ComparisonSound ==
    LET Agreed(name) == \E v \in {report[1].settings[n] : n \in DOMAIN report[1].settings} :
            \A r \in Runs : name \in DOMAIN report[r].settings /\ report[r].settings[name] = v
    IN \A t \in DiffTabs \cap got : \A r \in Runs :
           LET shown == {x.key : x \in page[t][r]}
               all == DOMAIN report[r].settings
           IN /\ status[t] = "yes" => shown = {name \in all : ~Agreed(name)}
              /\ status[t] = "no" /\ ~PendingFor(t) => shown = all

\* The graphs of the tab in view show the CPUs that are selected under Configure
\* now, whatever was selected when they were drawn before, and so does every
\* graph that is drawn while other callbacks are waiting still
\* (allRunCPUListUnchanged, utils.ts).
SelectionShown ==
    view \in CpuTabs =>
        \A r \in Runs : \A g \in page[view][r] :
            r \in DOMAIN run_config /\ g.cpus = run_config[r].cpu_list

\* A finding about a run is made from that run's values (the comment of
\* single_run_rule and the texts of the findings name the run).
FindingsOfTheirRun ==
    \A f \in findings : \A rule \in all_rules : f.rule = rule.name =>
        f.of = {ValueOf(rule, r) : r \in f.about}
=============================================================================
