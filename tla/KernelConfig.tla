---------------------------- MODULE KernelConfig ----------------------------
(***************************************************************************)
(* How the kernel's configuration file becomes a tree of groups:           *)
(* collect_data of data/kernel_config.rs, which knows of the menus only    *)
(* the header in front of each and the line "# end of NAME" after it.      *)
(* Kconfig, which wrote the file, is modelled as a writer some lines       *)
(* ahead: menus nest, a comment has the header of a menu but no end, and   *)
(* menus may share names.                                                  *)
(***************************************************************************)
EXTENDS Integers, Sequences, SequencesExt, FiniteSetsExt

CONSTANTS Titles,    \* the prompts of menus and comments
          MaxItems,  \* bound on the items of the file
          Root       \* the name of the group everything starts in, ""

ASSUME ConfigValues == MaxItems \in Nat /\ Root \notin Titles

VARIABLES ahead,     \* lines written and not read yet
          items,     \* how many items have been written
          open,      \* the titles of the menus open where the writer is
          within,    \* history: of each title in a menu the menus around it and itself
          settings,  \* history: how many settings have been written
          comments,  \* comments: the comment lines read since a line of another kind
          groups,    \* kernel_data_processed, each group with its entries and those of the
                     \* groups in it, in the order of the document
          repeated   \* history: a group was begun with the title of one in groups

configFile == <<ahead, items, open, within, settings>>
configVars == <<configFile, comments, groups, repeated>>

-----------------------------------------------------------------------------
\* The file.  A setting is known by its number, whether it is set or not.

Bar == [kind |-> "comment", title |-> Root]
Text(t) == [kind |-> "comment", title |-> t]
Blank == [kind |-> "blank"]
Setting(n) == [kind |-> "setting", number |-> n]
EndOf(t) == [kind |-> "end", title |-> t]

\* An entry has the line of a setting or a group, and the names of the groups it
\* is in, from the one that is in the list on.
Group(t) == [kind |-> "group", title |-> t]

\* The four lines in front of everything; or no file, which reads as one setting.
ConfigInit == /\ \/ ahead = <<Bar, Text(Root), Text(Root), Bar>> /\ items = 0 /\ settings = 0
                 \/ ahead = <<Setting(1)>> /\ items = MaxItems /\ settings = 1
              /\ open = <<>>
              /\ within = {}
              /\ comments = <<>>
              /\ groups = <<[name |-> Root, entries |-> <<>>]>>
              /\ repeated = FALSE

Write(lines) == /\ ahead = <<>>
                /\ ahead' = lines
                /\ items' = items + 1
                /\ UNCHANGED <<comments, groups, repeated>>

\* A menu, or a comment, begins.
WriteHeader(t, isMenu) ==
    /\ items + Len(open) + (IF isMenu THEN 2 ELSE 1) <= MaxItems
    /\ Write(<<Blank, Bar, Text(t), Bar>>)
    /\ open' = IF isMenu THEN Append(open, t) ELSE open
    /\ within' = IF open = <<>> THEN within ELSE within \cup {Append(open, t)}
    /\ UNCHANGED settings

WriteSetting == /\ items + Len(open) < MaxItems
                /\ Write(<<Setting(settings + 1)>>)
                /\ settings' = settings + 1
                /\ UNCHANGED <<open, within>>

\* The end of a menu is followed by a blank line unless another end follows.
WriteEnd == /\ open # <<>>
            /\ Write(<<EndOf(Last(open)), Blank>>)
            /\ open' = Front(open)
            /\ UNCHANGED <<within, settings>>

-----------------------------------------------------------------------------
\* The reader.

\* What has been read is the header of a group.
IsHeader == Len(comments) = 3

Begun == IF IsHeader
         THEN Append(groups, [name |-> comments[2].title, entries |-> <<>>])
         ELSE groups

\* The groups with a setting added to the last one.
WithSetting(g, line) ==
    [g EXCEPT ![Len(g)].entries = Append(@, [path |-> <<g[Len(g)].name>>, item |-> line])]

Matching(g, t) == {i \in 1..Len(g) : g[i].name = t}

\* What group h is within one of the title t.
Within(t, h) == <<[path |-> <<t>>, item |-> Group(h.name)]>> \o
                [a \in DOMAIN h.entries |-> [path |-> <<t>> \o h.entries[a].path,
                                              item |-> h.entries[a].item]]

\* The number of groups that follow group i up to the next one of the title t.
Following(g, t, i) == Min({Len(g) + 1} \cup {j \in Matching(g, t) : j > i}) - i - 1

\* Mutant: the groups that have been put into another one stay in the list too.
Kept_All(g, t) == Len(g)

\* The last group of the title, after which nothing is kept in the list.
Kept(g, t) == Max(Matching(g, t))

\* Mutant: only the last group is put into the one that ends.
Inside_Last(g, t, i) == Within(t, Last(g))

\* What is put into the group i, one of the title t.
Inside(g, t, i) == FlattenSeq([k \in 1..Following(g, t, i) |-> Within(t, g[i + k])])

\* The groups after "# end of t": those begun since its header are put into it.
Ended(g, t) ==
    IF Last(g).name = t \/ Matching(g, t) = {} THEN g
    ELSE [i \in 1..Kept(g, t) |->
            IF i \in Matching(g, t) THEN [g[i] EXCEPT !.entries = @ \o Inside(g, t, i)]
            ELSE g[i]]

ReadComment == /\ ahead # <<>> /\ Head(ahead).kind = "comment"
               /\ ahead' = Tail(ahead)
               /\ comments' = Append(comments, Head(ahead))
               /\ UNCHANGED <<items, open, within, settings, groups, repeated>>

\* Any other line ends the comment, which may have been a header.
ReadLine == /\ ahead # <<>> /\ Head(ahead).kind # "comment"
            /\ ahead' = Tail(ahead)
            /\ comments' = <<>>
            /\ LET line == Head(ahead)
               IN groups' = CASE line.kind = "blank"   -> Begun
                              [] line.kind = "setting" -> WithSetting(Begun, line)
                              [] line.kind = "end"     -> Ended(Begun, line.title)
            /\ repeated' = (repeated \/ (IsHeader /\ Matching(groups, comments[2].title) # {}))
            /\ UNCHANGED <<items, open, within, settings>>

-----------------------------------------------------------------------------
Finished == ahead = <<>> /\ open = <<>> /\ items = MaxItems

ConfigTerminated == Finished /\ UNCHANGED configVars

ConfigNext == \/ \E t \in Titles : \E isMenu \in BOOLEAN : WriteHeader(t, isMenu)
              \/ WriteSetting \/ WriteEnd
              \/ ReadComment \/ ReadLine
              \/ ConfigTerminated

ConfigSpec == ConfigInit /\ [][ConfigNext]_configVars

-----------------------------------------------------------------------------
\* Properties.

\* The settings among entries.
SettingsOf(entries) == {e.item.number : e \in {f \in Range(entries) : f.item.kind = "setting"}}

InOrder(entries) ==
    \A a, b \in DOMAIN entries :
        a < b /\ entries[a].item.kind = "setting" /\ entries[b].item.kind = "setting" =>
            entries[a].item.number < entries[b].item.number

\* Of each group in another one the menus around it and its own title.
Nested(entries) ==
    {Append(e.path, e.item.title) : e \in {f \in Range(entries) : f.item.kind = "group"}}

\* Every setting read is in the tree, and it is there once and in the order of
\* the file unless a title was used again while its group was in the list.
SettingsKept ==
    LET read == IF \E i \in DOMAIN ahead : ahead[i].kind = "setting" THEN settings - 1
                ELSE settings
    IN /\ UNION {SettingsOf(g.entries) : g \in Range(groups)} = 1..read
       /\ ~repeated => \A i \in DOMAIN groups :
            /\ InOrder(groups[i].entries)
            /\ \A j \in DOMAIN groups : i < j =>
                 \A m \in SettingsOf(groups[i].entries), n \in SettingsOf(groups[j].entries) : m < n

\* When all menus have ended each group is in the groups of the menus around it,
\* in their order, and there is no other nesting.  (The settings that follow a
\* menu in the one around it are put into the group begun last, which is not
\* promised otherwise.)
MenusNested ==
    open = <<>> /\ ahead = <<>> /\ ~repeated =>
        UNION {Nested(g.entries) : g \in Range(groups)} = within
=============================================================================
