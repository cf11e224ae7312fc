---------------------------- MODULE ServerFiles -----------------------------
(***************************************************************************)
(* Starting a server (loadstone-server main.rs) and the files a start      *)
(* works on: the log it rolls aside (logging.rs: open_log_file),           *)
(* server.properties, which every start reads and writes back              *)
(* (properties.rs), and eula.txt.  An operator edits the properties, may   *)
(* start a second server in the same directory, which finds the port       *)
(* taken only after it has been through all of them, and a start may be    *)
(* killed between any two of its steps.                                    *)
(*                                                                         *)
(* A text is a sequence of lines, a value a sequence of symbols, of which  *)
(* only the backslash and what it escapes matter.                          *)
(***************************************************************************)
EXTENDS Integers, Sequences, FiniteSets, Functions

CONSTANTS
  Servers,    \* processes an operator starts in one directory
  Texts,      \* what an operator may make of server.properties
  Defaults,   \* DEFAULTS: lines with every vanilla key
  NoKey,      \* the key of a comment, a blank line or one without "="
  Backslash,  \* the symbol that escapes another one
  Escapable,  \* the symbols unescape knows: ":", "=", "#", "!", and the backslash itself
  NoFile,     \* there is no such file
  MaxStarts,  \* bound on starts
  MaxEdits,   \* bound on edits of the properties
  MaxFaults   \* bound on kills and failed renames

\* A line: the key and what comes after "=".
Line == [key : STRING, value : Seq(STRING)]

ASSUME EscapeType   == Backslash \in Escapable /\ Escapable \subseteq STRING
ASSUME TextsType    == /\ Texts \subseteq Seq(Line) /\ NoFile \notin Seq(Line)
                       /\ NoFile \notin {"torn", "accepted"} /\ NoKey \in STRING
ASSUME DefaultsType == /\ Defaults \in Seq(Line)
                       /\ \A i \in DOMAIN Defaults : Defaults[i].key # NoKey
                       /\ IsInjective([i \in DOMAIN Defaults |-> Defaults[i].key])
ASSUME BoundsType   == {MaxStarts, MaxEdits, MaxFaults} \subseteq Nat

VARIABLES
  proc,    \* per server: the step it is at; until it has its log, the number of the run,
           \* which names the log, and the name it found for the previous one; whether
           \* --accept-eula was given; the properties it has loaded, until they are written
  latest,  \* logs/latest.log: the run that writes it
  rolled,  \* the logs rolled aside, by index
  file,    \* server.properties
  eula,    \* eula.txt: "accepted", "torn", or NoFile
  wanted,  \* history: the value of each key its last author gave the properties
  given,   \* history: what wanted has been from the start on
  logged,  \* history: the runs that have opened a log
  agreed,  \* history: has the agreement been written?
  risked,  \* history: the runs whose log a failed rename or overlapping starts may cost
  doubt,   \* history: the files that faults or overlapping starts may have spoilt
  edits,   \* bounds the model only
  starts,  \* numbers the starts, and bounds the model
  faults   \* bounds the model only

logs    == <<latest, rolled>>
history == <<wanted, given, logged, agreed>>
doubts  == <<risked, doubt>>
bounds  == <<edits, starts, faults>>
vars    == <<proc, logs, file, eula, history, doubts, bounds>>

Off == [at |-> "off", run |-> 0, slot |-> 0, accept |-> FALSE, props |-> <<>>]

At(p, steps)  == proc[p].at \in steps
AtLogs        == {"find", "rename", "create"}
Goes(p, step) == proc' = [proc EXCEPT ![p] = IF step = "off" THEN Off ELSE [@ EXCEPT !.at = step]]

-----------------------------------------------------------------------------
(* server.properties *)

Pair(key, value) == [key |-> key, value |-> value]

Keys(entries) == {entries[i].key : i \in DOMAIN entries} \ {NoKey}

Lines(text, key) == {i \in DOMAIN text : text[i].key = key}
FirstLine(text, key) == CHOOSE i \in Lines(text, key) : \A j \in Lines(text, key) : i <= j
LastLine(text, key)  == CHOOSE i \in Lines(text, key) : \A j \in Lines(text, key) : j <= i

\* What unescape has put out, and whether a backslash waits for the symbol it may escape.
Unescaping == [out : Seq(STRING), escapes : BOOLEAN]

\* Faulty variant: a backslash goes before every symbol.
AlwaysGoes(symbol) ==
  [read \in Unescaping |->
     IF symbol = Backslash /\ ~read.escapes THEN [read EXCEPT !.escapes = TRUE]
     ELSE [out |-> Append(read.out, symbol), escapes |-> FALSE]]

\* Its next symbol: a backslash goes before one it escapes, and stays before another.
Reads(symbol) ==
  [read \in Unescaping |->
     IF read.escapes
     THEN [out     |-> read.out \o (IF symbol \in Escapable THEN <<symbol>>
                                    ELSE <<Backslash, symbol>>),
           escapes |-> FALSE]
     ELSE IF symbol = Backslash THEN [read EXCEPT !.escapes = TRUE]
     ELSE [read EXCEPT !.out = Append(@, symbol)]]

Unescape(value) ==
  LET read[i \in 0 .. Len(value)] ==
        IF i = 0 THEN [out |-> <<>>, escapes |-> FALSE] ELSE Reads(value[i])[read[i - 1]]
      end == read[Len(value)]
  IN  IF end.escapes THEN Append(end.out, Backslash) ELSE end.out

\* Faulty variant: a key that is there already keeps its value.
FirstCounts(key, value) ==
  [entries \in Seq(Line) |->
     IF key \in Keys(entries) THEN entries ELSE Append(entries, Pair(key, value))]

\* insert: a key that is there already gets the new value, and keeps its place.
Inserted(key, value) ==
  [entries \in Seq(Line) |->
     IF key \in Keys(entries) THEN [entries EXCEPT ![FirstLine(entries, key)] = Pair(key, value)]
     ELSE Append(entries, Pair(key, value))]

\* parse_line skips a line without a key.
LineTaken(line) ==
  IF line.key = NoKey THEN [entries \in Seq(Line) |-> entries]
  ELSE Inserted(line.key, Unescape(line.value))

\* The lines of a text, one after the other.
Parsed(text) ==
  LET entries[i \in 0 .. Len(text)] ==
        IF i = 0 THEN <<>> ELSE LineTaken(text[i])[entries[i - 1]]
  IN  entries[Len(text)]

\* Faulty variant: a key the file lacks is left out.
NotAdded(default) == [entries \in Seq(Line) |-> entries]

AddedIfMissing(default) ==
  [entries \in Seq(Line) |->
     IF default.key \in Keys(entries) THEN entries ELSE Append(entries, default)]

\* The defaults of the keys that are not there yet go to the end.
Completed(entries) ==
  LET all[i \in 0 .. Len(Defaults)] ==
        IF i = 0 THEN entries ELSE AddedIfMissing(Defaults[i])[all[i - 1]]
  IN  all[Len(Defaults)]

\* ServerProperties::load
Loaded(text) == IF text = NoFile THEN Defaults ELSE Completed(Parsed(text))

\* ServerProperties::save: two lines of comment, then the values as they are.
Rendered(entries) == <<Pair(NoKey, <<>>), Pair(NoKey, <<>>)>> \o entries

\* ServerProperties::get
Get(entries, key) == entries[FirstLine(entries, key)].value

-----------------------------------------------------------------------------
(* The operator *)

\* What a text says: the last line of a key counts; a key it does not name has its default.
Meaning(text) ==
  [key \in Keys(Defaults) \cup Keys(text) |->
     IF key \in Keys(text) THEN Unescape(text[LastLine(text, key)].value) ELSE Get(Defaults, key)]

MeaningOf == [text \in Texts |-> Meaning(text)]

Init ==
  /\ proc = [p \in Servers |-> Off]
  /\ latest = 0
  /\ rolled = <<>>
  /\ file = NoFile
  /\ eula = NoFile
  /\ wanted = Meaning(<<>>)
  /\ given = {wanted}
  /\ logged = {}
  /\ agreed = FALSE
  /\ risked = {}
  /\ doubt = {}
  /\ edits = 0
  /\ starts = 0
  /\ faults = 0

\* The properties are edited; a start that has read them already will write over it.
EditProperties ==
  /\ edits < MaxEdits
  /\ edits' = edits + 1
  /\ \E text \in Texts : file' = text /\ wanted' = MeaningOf[text]
  /\ given' = given \cup {wanted'}
  /\ doubt' = IF \E p \in Servers : At(p, {"truncate", "write"})
              THEN doubt \cup {"properties"} ELSE doubt \ {"properties"}
  /\ UNCHANGED <<proc, logs, eula, logged, agreed, risked, starts, faults>>

\* A start that comes to the logs while another is there puts at risk the log there is, and
\* those of all who are there.
StartServer(p) ==
  /\ At(p, {"off"})
  /\ starts < MaxStarts
  /\ starts' = starts + 1
  /\ \E flag \in BOOLEAN :
       proc' = [proc EXCEPT ![p].at = IF latest = 0 THEN "create" ELSE "find",
                            ![p].run = starts', ![p].accept = flag]
  /\ LET there == {q \in Servers : At(q, AtLogs)}
     IN  risked' = IF there = {} THEN risked
                   ELSE risked \cup {latest, starts'} \cup {proc[q].run : q \in there}
  /\ UNCHANGED <<logs, file, eula, history, doubt, edits, faults>>

-----------------------------------------------------------------------------
(* open_log_file *)

\* Faulty variant: the log goes to the first name there is.
FirstSlot == 1

FreeSlot == CHOOSE i \in 1 .. Len(rolled) + 1 : i \notin DOMAIN rolled

FindSlot(p) ==
  /\ At(p, {"find"})
  /\ proc' = [proc EXCEPT ![p].at = "rename", ![p].slot = FreeSlot]
  /\ UNCHANGED <<logs, file, eula, history, doubts, bounds>>

RenameLog(p) ==
  /\ At(p, {"rename"})
  /\ rolled' = IF latest = 0 THEN rolled
               ELSE [i \in DOMAIN rolled \cup {proc[p].slot} |->
                       IF i = proc[p].slot THEN latest ELSE rolled[i]]
  /\ latest' = 0
  /\ Goes(p, "create")
  /\ UNCHANGED <<file, eula, history, doubts, bounds>>

\* The rename's error is ignored, and the log there is will be truncated.
RenameFails(p) ==
  /\ At(p, {"rename"})
  /\ faults < MaxFaults
  /\ faults' = faults + 1
  /\ risked' = risked \cup {latest}
  /\ Goes(p, "create")
  /\ UNCHANGED <<logs, file, eula, history, doubt, edits, starts>>

\* The log is created, or truncated if there is one.
CreateLog(p) ==
  /\ At(p, {"create"})
  /\ latest' = proc[p].run
  /\ logged' = logged \cup {proc[p].run}
  /\ proc' = [proc EXCEPT ![p].at = "load", ![p].run = 0, ![p].slot = 0]
  /\ UNCHANGED <<rolled, file, eula, wanted, given, agreed, doubts, bounds>>

-----------------------------------------------------------------------------
(* The properties and the agreement *)

\* A file read while another start rewrites it may have only some of its lines.
LoadProperties(p) ==
  /\ At(p, {"load"})
  /\ proc' = [proc EXCEPT ![p].at = "truncate", ![p].props = Loaded(file)]
  /\ doubt' = IF \E q \in Servers : At(q, {"write"}) THEN doubt \cup {"properties"} ELSE doubt
  /\ UNCHANGED <<logs, file, eula, history, risked, bounds>>

\* fs::write; what the server makes of its properties afterwards is left out.
TruncateProperties(p) ==
  /\ At(p, {"truncate"})
  /\ file' = <<>>
  /\ Goes(p, "write")
  /\ UNCHANGED <<logs, eula, history, doubts, bounds>>

WriteProperties(p) ==
  /\ At(p, {"write"})
  /\ file' = Rendered(proc[p].props)
  /\ proc' = [proc EXCEPT ![p].at = "agree", ![p].props = <<>>]
  /\ UNCHANGED <<logs, eula, history, doubts, bounds>>

\* write_eula truncates first; without the flag the file decides, and a refusal exits.
Agree(p) ==
  /\ At(p, {"agree"})
  /\ IF proc[p].accept THEN eula' = "torn" /\ Goes(p, "accept")
     ELSE UNCHANGED eula /\ Goes(p, IF eula = "accepted" THEN "bind" ELSE "off")
  /\ UNCHANGED <<logs, file, history, doubts, bounds>>

\* Faulty variant: the agreement is not written.
NotWritten == eula

Acceptance == "accepted"

WriteEula(p) ==
  /\ At(p, {"accept"})
  /\ eula' = Acceptance
  /\ agreed' = TRUE
  /\ doubt' = doubt \ {"eula"}
  /\ Goes(p, "bind")
  /\ UNCHANGED <<logs, file, wanted, given, logged, risked, bounds>>

PortFree == \A q \in Servers : ~At(q, {"up"})

\* Faulty variant: a start waits for the port.
Retry == IF PortFree THEN "up" ELSE "bind"

Bound == IF PortFree THEN "up" ELSE "off"

\* The listener is bound, or the start gives up.
Bind(p) ==
  /\ At(p, {"bind"})
  /\ Goes(p, Bound)
  /\ UNCHANGED <<logs, file, eula, history, doubts, bounds>>

Stop(p) ==
  /\ At(p, {"up"})
  /\ Goes(p, "off")
  /\ UNCHANGED <<logs, file, eula, history, doubts, bounds>>

\* What a write that is cut short leaves: whole lines, and the last one as far as it got.  A
\* line without its "=" says nothing.
Torn(whole) ==
  {<<>>} \cup UNION {{Append(SubSeq(whole, 1, n - 1),
                            Pair(whole[n].key, SubSeq(whole[n].value, 1, k))) :
                       k \in 0 .. Len(whole[n].value)} : n \in 1 .. Len(whole)}

\* A start is killed, also in the middle of a write.
Kill(p) ==
  /\ ~At(p, {"off"})
  /\ faults < MaxFaults
  /\ faults' = faults + 1
  /\ Goes(p, "off")
  /\ file' \in IF At(p, {"write"}) THEN Torn(Rendered(proc[p].props)) ELSE {file}
  /\ doubt' = doubt \cup (IF At(p, {"write"}) THEN {"properties"} ELSE {})
                    \cup (IF At(p, {"accept"}) THEN {"eula"} ELSE {})
  /\ UNCHANGED <<logs, eula, history, risked, edits, starts>>

Proceeds(p) ==
  \/ FindSlot(p) \/ RenameLog(p) \/ CreateLog(p)
  \/ LoadProperties(p) \/ TruncateProperties(p) \/ WriteProperties(p)
  \/ Agree(p) \/ WriteEula(p) \/ Bind(p)

Next ==
  \/ EditProperties
  \/ \E p \in Servers : Proceeds(p) \/ StartServer(p) \/ RenameFails(p) \/ Stop(p) \/ Kill(p)

\* A start is one thread that runs on.
Spec == Init /\ [][Next]_vars /\ \A p \in Servers : WF_vars(Proceeds(p))

-----------------------------------------------------------------------------
(* Properties *)

Steps == {"off", "find", "rename", "create", "load", "truncate", "write", "agree", "accept",
          "bind", "up"}

\* The state's shape: what a server has loaded names every key once, a vanilla key always.
TypeOK ==
  /\ DOMAIN proc = Servers
  /\ \A p \in Servers :
       /\ proc[p].at \in Steps /\ proc[p].accept \in BOOLEAN
       /\ {proc[p].run, proc[p].slot} \subseteq 0 .. MaxStarts
       /\ At(p, {"truncate", "write"}) =>
            /\ Keys(Defaults) \subseteq Keys(proc[p].props)
            /\ Cardinality(Keys(proc[p].props)) = Len(proc[p].props)
  /\ latest \in 0 .. MaxStarts
  /\ DOMAIN rolled \subseteq 1 .. MaxStarts
  /\ eula \in {NoFile, "torn", "accepted"}
  /\ risked \subseteq 0 .. MaxStarts
  /\ doubt \subseteq {"properties", "eula"}

\* No symbol of the value is one that unescape would take the backslash from.
Stable(value) ==
  \A i \in 1 .. Len(value) - 1 : value[i] = Backslash => value[i + 1] \notin Escapable

Says(meaning) ==
  /\ DOMAIN meaning = DOMAIN wanted
  /\ \A key \in DOMAIN wanted : Stable(wanted[key]) => meaning[key] = wanted[key]

\* No key has a value nobody gave it: it is what one author or the defaults said, or the
\* beginning of that.
Heard(meaning) ==
  \A key \in DOMAIN meaning :
    \E m \in given :
      /\ key \in DOMAIN m
      /\ Stable(m[key]) => \E k \in 0 .. Len(m[key]) : meaning[key] = SubSeq(m[key], 1, k)

\* However often the server is started, killed and started again, and whichever of two
\* starts comes first, the properties say what their last author said: no key lost, none
\* changed, defaults for the others.  A kill in the middle of a write, a start that reads
\* during it and an edit made under a start that had read the file already cost what that
\* author said, and then no more than this: a key goes back to a value it was given before
\* or to its default, or keeps the beginning of one, but never takes another key's value, a
\* mixture of two, or a name nobody wrote.  Left out are values that hold an escape once they
\* are unescaped: save does not escape them again, so the next start unescapes them once more.
PropertiesKept ==
  /\ "properties" \notin doubt =>
       /\ \A p \in Servers : At(p, {"write"}) =>
            LET props == proc[p].props IN Says([key \in Keys(props) |-> Get(props, key)])
       /\ (/\ \E p \in Servers : At(p, {"agree"})
           /\ \A p \in Servers : ~At(p, {"write"})) => Says(Meaning(file))
  /\ \A p \in Servers : At(p, {"write"}) =>
       LET props == proc[p].props IN Heard([key \in Keys(props) |-> Get(props, key)])
  /\ file # NoFile => Heard(Meaning(file))

\* What a start writes, the next one writes again, line for line and in this order; only
\* values that hold an escape once they are unescaped change again.
Settled ==
  \A p \in Servers : At(p, {"write"}) =>
    LET props == proc[p].props
        again == Loaded(Rendered(props))
    IN  /\ Len(again) = Len(props)
        /\ \A i \in DOMAIN props : Stable(props[i].value) => again[i] = props[i]

\* Every run that opened a log still has it, under some name, whatever starts overlap and
\* whichever of them are killed.  At risk are only the log a failed rename leaves to be
\* truncated, the one that was the latest when two starts met at their logs, and those of the
\* starts that met: what was rolled aside before is out of everybody's reach.
LogsKept == logged \subseteq {latest} \cup Range(rolled) \cup risked

\* Once it has been given, the agreement is on file, unless a start that was to give it
\* again is about to write it or was killed before it could; and what such a kill leaves is
\* never taken for an agreement: no start goes on before one has been given in full.
AgreementKept ==
  /\ (agreed /\ "eula" \notin doubt /\ \A p \in Servers : ~At(p, {"accept"})) => eula = "accepted"
  /\ \A p \in Servers : At(p, {"bind", "up"}) => agreed

\* Every start comes to its end: the server is up, or it has given up.
EveryStartDecides == \A p \in Servers : ~At(p, {"off"}) ~> At(p, {"off", "up"})
=============================================================================
