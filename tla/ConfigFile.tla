----------------------------- MODULE ConfigFile -----------------------------
(***************************************************************************)
(* Configuration files (lib/goconfig) and what the daemon takes from one   *)
(* (types/config.go, NewHyperConfig).  A configuration is kept three       *)
(* times: the values, and the lists of sections and of keys that give the  *)
(* order in the file.  Names are sequences, so that a section has          *)
(* sub-sections and a variable's name a last letter; what matters of a     *)
(* value is the quotes it needs and the variable it refers to.             *)
(***************************************************************************)
EXTENDS Naturals, Sequences, SequencesExt

CONSTANTS Sections,    \* section names besides DEFAULT
          KeyNames,    \* names of keys
          Values,      \* [text |-> ..., var |-> a name or None]
          MaxEdits,    \* bound: edits of a configuration
          None

VARIABLES data,         \* section -> key -> value, for the sections there are
          sectionList,
          keyList,      \* section -> sequence of keys
          keyComments,  \* the <<section, key>> with comments
          file,         \* the lines last saved, None before the first save
          cfg,          \* what NewHyperConfig made of the configuration
          edits

cfVars == <<data, sectionList, keyList, keyComments, file, cfg, edits>>

DEFAULT == <<"DEFAULT">>

(* The key " " that keeps a section without keys. *)
Keeper == <<" ">>

KeeperValue == [text |-> "plain", var |-> None]

Conf == [data |-> data, sections |-> sectionList, keys |-> keyList, comments |-> keyComments]

Empty == [data |-> <<>>, sections |-> <<>>, keys |-> <<>>, comments |-> {}]

KeysOf(c, s) == IF s \in DOMAIN c.keys THEN c.keys[s] ELSE <<>>

At(f, x, v) == [y \in DOMAIN f \cup {x} |-> IF y = x THEN v ELSE f[y]]

Without(f, x) == [y \in DOMAIN f \ {x} |-> f[y]]

DropFirst(seq, x) == LET i == CHOOSE i \in 1 .. Len(seq) : seq[i] = x /\ \A j \in 1 .. i - 1 : seq[j] # x
                     IN  RemoveAt(seq, i)

-----------------------------------------------------------------------------
(* SetValue makes the section if need be and lists a key that is new. *)
SetValue(c, s, k, v) ==
    LET known == s \in DOMAIN c.data
        old   == IF known THEN c.data[s] ELSE <<>>
    IN  [c EXCEPT !.data = At(@, s, At(old, k, v)),
                  !.sections = IF known THEN @ ELSE Append(@, s),
                  !.keys = IF k \in DOMAIN old THEN @ ELSE At(@, s, Append(KeysOf(c, s), k))]

(* Mutant: the key stays in the list. *)
BugDeleteKey(c, s, k) ==
    [c EXCEPT !.data = At(@, s, Without(c.data[s], k)), !.comments = @ \ {<<s, k>>}]

(* DeleteKey drops the value, the comments and the entry of the list. *)
DeleteKey(c, s, k) ==
    [c EXCEPT !.data = At(@, s, Without(c.data[s], k)),
              !.comments = @ \ {<<s, k>>},
              !.keys = At(@, s, DropFirst(c.keys[s], k))]

(* DeleteSection leaves the comments of the section's keys behind. *)
DeleteSection(c, s) ==
    [c EXCEPT !.data = Without(@, s), !.keys = Without(@, s),
              !.sections = DropFirst(@, s)]

(* GetSection hands out the map itself, the keeper removed from it (and not *)
(* from the list).                                                          *)
GetSection(c, s) == [c EXCEPT !.data = At(@, s, Without(c.data[s], Keeper))]

SetKeyComments(c, s, k) == [c EXCEPT !.comments = @ \cup {<<s, k>>}]

(* GetValue: a key missing in a sub-section is looked up in the section     *)
(* above; a variable is replaced by the value of DEFAULT, or else of the    *)
(* section.  All trailing "s" are taken off the variable's name.            *)
Endless == "endless"

TrimName(n) == LET keep == {i \in 1 .. Len(n) : n[i] # "s"}
               IN  SubSeq(n, 1, IF keep = {} THEN 0 ELSE CHOOSE i \in keep : \A j \in keep : j <= i)

RECURSIVE GetValue(_, _, _, _)
RECURSIVE Unfold(_, _, _, _)
GetValue(c, s, k, depth) ==
    IF s \notin DOMAIN c.data THEN None
    ELSE IF k \in DOMAIN c.data[s] THEN Unfold(c, s, c.data[s][k], depth)
    ELSE IF Len(s) > 1 THEN GetValue(c, Front(s), k, depth) ELSE None

(* The loop over the variables.  One of DEFAULT that refers to itself is    *)
(* looked up without end.                                                   *)
Unfold(c, s, v, depth) ==
    LET n == TrimName(v.var)
        d == GetValue(c, DEFAULT, n, depth - 1)
    IN  CASE v.var = None -> v.text
          [] v.var # None /\ depth = 0 -> Endless
          [] OTHER -> IF d # None THEN d
                      ELSE IF s # DEFAULT /\ n \in DOMAIN c.data[s]
                             THEN Unfold(c, s, c.data[s][n], depth - 1)
                      ELSE ""

-----------------------------------------------------------------------------
(* SaveConfigFile: a value with a back quote is put in quotes: three double *)
(* ones when it holds a double quote too, otherwise a single one, which the *)
(* reader does not take off again.  DEFAULT has no header line.             *)
WriteValue(v) == IF v.text = "tick" THEN [v EXCEPT !.text = "quoted tick"] ELSE v

KeyLines(c, s, k) ==
    (IF <<s, k>> \in c.comments THEN <<[kind |-> "comment"]>> ELSE <<>>) \o
    <<[kind |-> "key", key |-> k,
       value |-> WriteValue(IF k \in DOMAIN c.data[s] THEN c.data[s][k]
                            ELSE [text |-> "", var |-> None])]>>

SectionLines(c, s) ==
    (IF s = DEFAULT THEN <<>> ELSE <<[kind |-> "section", name |-> s]>>) \o
    FlattenSeq([i \in 1 .. Len(SelectSeq(KeysOf(c, s), LAMBDA k : k # Keeper)) |->
                   KeyLines(c, s, SelectSeq(KeysOf(c, s), LAMBDA k : k # Keeper)[i])])

SaveConfigFile(c) == FlattenSeq([i \in 1 .. Len(c.sections) |-> SectionLines(c, c.sections[i])])

(* ConfigFile.read, a line at a time: [conf, section, comments]. *)
ReadLine(r, line) ==
    CASE line.kind = "comment" -> [r EXCEPT !.pending = TRUE]
      [] line.kind = "section" ->
            [conf |-> SetValue(r.conf, line.name, Keeper, KeeperValue),
             section |-> line.name, pending |-> FALSE]
      [] line.kind = "key" ->
            LET c == SetValue(r.conf, r.section, line.key, line.value)
            IN  [r EXCEPT !.conf = IF r.pending THEN SetKeyComments(c, r.section, line.key) ELSE c,
                          !.pending = FALSE]

LoadConfigFile(lines) ==
    FoldLeft(ReadLine, [conf |-> Empty, section |-> DEFAULT, pending |-> FALSE], lines).conf

(* NewHyperConfig: a default root ("r"), no configuration for a bad number  *)
(* ("p"), the section Log as it stands; a value without end is the daemon's.*)
NewHyperConfig(c) ==
    LET get(k) == GetValue(c, DEFAULT, k, 3)
    IN  IF Endless \in {get(<<"p">>), get(<<"r">>)} THEN Endless
        ELSE IF get(<<"p">>) \notin {None, "", "plain"} THEN None
        ELSE [root |-> IF get(<<"r">>) \in {None, ""} THEN "/var/lib/hyper" ELSE get(<<"r">>),
              log |-> IF <<"Log">> \in DOMAIN c.data THEN Without(c.data[<<"Log">>], Keeper) ELSE <<>>]

-----------------------------------------------------------------------------
Becomes(c) == /\ data' = c.data /\ sectionList' = c.sections
              /\ keyList' = c.keys /\ keyComments' = c.comments

CfInit == /\ data = <<>> /\ sectionList = <<>> /\ keyList = <<>> /\ keyComments = {}
          /\ file = None /\ cfg = None /\ edits = 0

(* The edits, each a call of the library on one configuration. *)
Edit == /\ edits < MaxEdits
        /\ \E s \in Sections \cup {DEFAULT}, k \in KeyNames :
              \/ \E v \in Values : Becomes(SetValue(Conf, s, k, v))
              \/ /\ s \in DOMAIN data
                 /\ \/ k \in DOMAIN data[s] /\ Becomes(DeleteKey(Conf, s, k))
                    \/ k \in DOMAIN data[s] /\ Becomes(SetKeyComments(Conf, s, k))
                    \/ Becomes(DeleteSection(Conf, s))
                    \/ Becomes(GetSection(Conf, s))
        /\ edits' = edits + 1
        /\ UNCHANGED <<file, cfg>>

Save == /\ file' = SaveConfigFile(Conf)
        /\ UNCHANGED <<data, sectionList, keyList, keyComments, cfg, edits>>

Reload == /\ file # None /\ edits < MaxEdits
          /\ Becomes(LoadConfigFile(file))
          /\ cfg' = NewHyperConfig(LoadConfigFile(file))
          /\ edits' = edits + 1
          /\ UNCHANGED file

CfNext == Edit \/ Save \/ Reload

CfSpec == CfInit /\ [][CfNext]_cfVars

-----------------------------------------------------------------------------
Plain(f) == Without(f, Keeper)

(* What a configuration says is what its file says: after any edits, saving *)
(* and loading gives the same sections, the same keys in the same order,    *)
(* the same values and the same daemon.  Excepted are the values and the    *)
(* order of sections that SaveConfigFile is known to spoil: a back quote    *)
(* without a double quote, and DEFAULT behind another section.              *)
SavedIsLoaded ==
    LET new == LoadConfigFile(SaveConfigFile(Conf))
        order(c, s) == SelectSeq(KeysOf(c, s), LAMBDA k : k # Keeper)
    IN  (/\ \A i \in 2 .. Len(sectionList) : sectionList[i] # DEFAULT
         /\ \A s \in DOMAIN data : \A k \in DOMAIN data[s] : data[s][k].text # "tick") =>
           /\ NewHyperConfig(new) = NewHyperConfig(Conf)
           /\ \A s \in DOMAIN data :
                 Plain(data[s]) # <<>> =>
                    /\ s \in DOMAIN new.data
                    /\ Plain(new.data[s]) = Plain(data[s])
                    /\ order(new, s) = order(Conf, s)
=============================================================================
