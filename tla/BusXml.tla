------------------------------- MODULE BusXml -------------------------------
(***************************************************************************)
(* What the bus says in XML (XMLTypes.h, XMLParser.cpp) and the packet it  *)
(* travels in to and from the global server (Packet.cpp), as functions     *)
(* between objects and elements.  libxml2 is taken to be right: an element *)
(* is its tag, its attributes, the text it encloses and its children of    *)
(* each tag in their order, and text that is not well-formed is no         *)
(* element.  A value is a word, or a number as atoi() and "%d" see it.     *)
(*                                                                         *)
(* Lists are as they are linked, the latest first (LIST_ADD).  What memory *)
(* holds that nobody wrote is Unset.                                       *)
(***************************************************************************)
EXTENDS Integers, Sequences, SequencesExt

Word(w) == [word |-> w, num |-> 0]
Num(n) == [word |-> "", num |-> n]
Unset == [word |-> "?", num |-> 0]

Element(tag, attr, value, kids) ==
  [tag |-> tag, attr |-> attr, value |-> value, kids |-> kids]

NoElement == Element("", <<>>, Unset, <<>>)

\* xmlGetProp(), or what the constructor has set when there is no such attribute.
Prop(e, a, default) == IF a \in DOMAIN e.attr THEN e.attr[a] ELSE default

\* The children of a tag, which is all the parser's loops look at.
Kids(e, tag) == IF tag \in DOMAIN e.kids THEN e.kids[tag] ELSE <<>>

-----------------------------------------------------------------------------
(* The enumerations, from 0, and the tables of their names.                *)

CmdTypes ==
  << "STAY", "INFO", "LOG", "LOGOFF", "IMG", "START", "STOP", "PAUSE", "WAIT",
     "RESUME", "EPK", "LUA", "FILE", "KEY", "RPC", "ARPC", "TC", "SH", "CFG",
     "REBOOT", "EXIT", "COMPLETE", "NONE" >>
CMD_STR_TABLE ==
  << "STAY", "INFO", "LOG", "LOGOFF", "IMG", "START", "STOP", "PAUSE", "WAIT",
     "RESUME", "EPK", "LUA", "FILE", "KEY", "RPC", "ARPC", "TC", "SH", "CFG",
     "REBOOT", "EXIT", "COMPLETE" >>

EvtTypes ==
  << "REGOK", "REGFAIL", "READY", "LOG", "ERROR", "IMG", "TC", "CMD", "INFO", "NONE" >>
EVT_STR_TABLE ==
  << "REGOK", "REGFAIL", "READY", "LOG", "ERROR", "IMG", "TC", "CMD", "INFO" >>

LogFormats == << "JSON", "TXT", "XML", "JPG", "BIN", "NONE" >>
FORMAT_STR_TABLE == << "JSON", "TXT", "XML", "JPG", "BIN" >>

ErrorIds == << "SYS", "CMD", "NONE" >>
ERROR_STR_TABLE == << "SYS", "CMD" >>

BusTypes == << "EVENT", "REQUEST", "RESPONSE", "NONE" >>
BusCmds ==
  << "JOIN", "DROP", "LIST", "CLIENT_BROADCAST", "REGISTER", "UNREGISTER",
     "SAVE_USB", "LOGCAT_USB", "NONE" >>
BusEvents == << "NODE_ADDED", "NODE_DROPPED", "NETWORK_DETACHED", "SET_DEFAULT_NODE" >>

Enum(names, w) == (CHOOSE k \in 1 .. Len(names) : names[k] = w) - 1

\* The table's entry; behind its end anything is read.
Entry(table, n) ==
  IF n + 1 \in DOMAIN table THEN Word(table[n + 1]) ELSE Unset

\* The chain of strcmp() knows the words of the table; a word it does not know
\* leaves what is there.
Keyword(table, names, v, default) ==
  IF v.word \in Range(table) THEN Enum(names, v.word) ELSE default

-----------------------------------------------------------------------------
(* CommandXML and its arguments.                                           *)

NoName == Word("")

Argument(name, value) == [name |-> name, value |-> value]

NewCommand ==
  [class |-> "command", type |-> Enum(CmdTypes, "NONE"), time |-> 0, args |-> <<>>]

\* addArgument() of one after the other, each in front of those before it.
AddArguments(c, added) == [c EXCEPT !.args = Reverse(added) \o @]

ArgElement(a) ==
  Element("arg", IF a.name = NoName THEN <<>> ELSE [name |-> a.name], a.value, <<>>)

\* Mutant of CommandElement: the arguments in the order they are linked.
CommandElementForward(c) ==
  Element("command", [type |-> Entry(CMD_STR_TABLE, c.type)], Unset,
          [arg |-> [k \in 1 .. Len(c.args) |-> ArgElement(c.args[k])]])

\* toXML() and toFullXML(): the arguments from the end of the list, as they were
\* added.  The time is not printed.
CommandElement(c) ==
  Element("command", [type |-> Entry(CMD_STR_TABLE, c.type)], Unset,
          [arg |-> [k \in 1 .. Len(c.args) |-> ArgElement(Reverse(c.args)[k])]])

ParseArgument(e) == Argument(Prop(e, "name", NoName), e.value)

ParseCommand(e) ==
  LET typed == [NewCommand EXCEPT
        !.type = Keyword(CMD_STR_TABLE, CmdTypes, Prop(e, "type", Unset), @),
        !.time = Prop(e, "time", Num(@)).num]
      args == Kids(e, "arg")
  IN  AddArguments(typed, [k \in 1 .. Len(args) |-> ParseArgument(args[k])])

-----------------------------------------------------------------------------
(* EventXML.                                                               *)

NoXml == [class |-> "null"]

NewEvent ==
  [class |-> "event", type |-> Enum(EvtTypes, "NONE"), format |-> 0, length |-> 0,
   id |-> Enum(ErrorIds, "NONE"), res |-> 0, command |-> NoXml]

\* What toXML() prints for each type, and nothing for the others.
EventElement(e) ==
  LET type == Entry(EVT_STR_TABLE, e.type)
      format == Entry(FORMAT_STR_TABLE, e.format)
      id == Entry(ERROR_STR_TABLE, e.id)
      Printed(attr, kids) == Element("event", attr, Unset, kids)
  IN
  CASE type.word \in {"REGOK", "REGFAIL", "READY"} -> Printed([type |-> type], <<>>)
    [] type.word \in {"LOG", "IMG", "INFO"} ->
         Printed([type |-> type, format |-> format, length |-> Num(e.length)], <<>>)
    [] type.word = "ERROR" -> Printed([type |-> type, id |-> id], <<>>)
    [] type.word = "TC" ->
         Printed([type |-> type, id |-> id, res |-> Num(e.res)], <<>>)
    [] type.word = "CMD" ->
         Printed([type |-> type, res |-> Num(e.res)],
                 IF e.command = NoXml THEN <<>>
                 ELSE [command |-> <<CommandElement(e.command)>>])
    [] OTHER -> NoElement

\* An id that is no word of the table is a number, the id of a testcase.  Only
\* the first command is read.
ParseEvent(e) ==
  LET id == Prop(e, "id", Word("NONE"))
      commands == Kids(e, "command")
  IN
  [NewEvent EXCEPT
     !.type = Keyword(EVT_STR_TABLE, EvtTypes, Prop(e, "type", Unset), @),
     !.format = Keyword(FORMAT_STR_TABLE, LogFormats, Prop(e, "format", Unset), @),
     !.length = Prop(e, "length", Num(@)).num,
     !.res = Prop(e, "res", Num(@)).num,
     !.id = IF "id" \in DOMAIN e.attr
            THEN Keyword(ERROR_STR_TABLE, ErrorIds, id, id.num) ELSE @,
     !.command = IF commands = <<>> THEN @ ELSE ParseCommand(commands[1])]

-----------------------------------------------------------------------------
(* NBUSXML.                                                                *)

NewBus ==
  [class |-> "bus", type |-> Unset, id |-> Unset, syncId |-> -1, buffer |-> Unset,
   node |-> Unset, ip |-> Unset, port |-> Unset, nodes |-> <<>>]

AddNodeNames(b, added) == [b EXCEPT !.nodes = Reverse(added) \o @]

IsBus(b, type, names, ids) ==
  /\ b.type = Num(Enum(BusTypes, type))
  /\ \E w \in ids : b.id = Num(Enum(names, w))

\* toXML(): each kind of request, answer and event with what goes with it.  The
\* names in the order they are linked, which is not the one they were added in.
BusElement(b) ==
  LET head == [type |-> b.type, id |-> b.id]
      named == [type |-> b.type, id |-> b.id, node |-> b.node]
      asked == [type |-> b.type, id |-> b.id, node |-> b.node,
                syncid |-> Num(b.syncId), buffer |-> b.buffer]
      Is(type, names, ids) == IsBus(b, type, names, ids)
      Printed(attr, kids) == Element("nodebus", attr, Unset, kids)
  IN
  CASE Is("EVENT", BusEvents, {"NODE_ADDED", "NODE_DROPPED", "SET_DEFAULT_NODE"})
         -> Printed(named, <<>>)
    [] Is("EVENT", BusEvents, {"NETWORK_DETACHED"}) -> Printed(head, <<>>)
    [] Is("REQUEST", BusCmds, {"LIST"}) -> Printed(asked, <<>>)
    [] Is("REQUEST", BusCmds, {"JOIN", "DROP"}) -> Printed(named, <<>>)
    [] Is("RESPONSE", BusCmds, {"LIST"}) ->
         Printed(asked, [node |-> [k \in 1 .. Len(b.nodes) |->
                                     Element("node", <<>>, b.nodes[k], <<>>)]])
    [] OTHER -> NoElement

AsNumber(v) == IF v = Unset THEN v ELSE Num(v.num)

ParseBus(e) ==
  LET plain == [NewBus EXCEPT
        !.type = AsNumber(Prop(e, "type", @)), !.id = AsNumber(Prop(e, "id", @)),
        !.syncId = Prop(e, "syncid", Num(@)).num, !.buffer = Prop(e, "buffer", @),
        !.node = Prop(e, "node", @), !.ip = Prop(e, "ip", @),
        !.port = AsNumber(Prop(e, "port", @))]
      names == Kids(e, "node")
  IN  AddNodeNames(plain, [k \in 1 .. Len(names) |-> names[k].value])

-----------------------------------------------------------------------------
(* The objects the bus makes: those with a type that has a name, and with    *)
(* the fields that do not belong to it as the constructor set them.          *)

Value == [word : STRING, num : Int]

IsPrintedCommand(c) ==
  c \in [class : {"command"}, type : 0 .. Len(CMD_STR_TABLE) - 1, time : Int,
         args : Seq([name : Value, value : Value])]

IsPrintedEvent(e) ==
  LET Is(words) == \E w \in words : e.type = Enum(EvtTypes, w)
  IN
  \/ /\ Is({"REGOK", "REGFAIL", "READY"})
     /\ e = [NewEvent EXCEPT !.type = e.type]
  \/ /\ Is({"LOG", "IMG", "INFO"})
     /\ e.format \in 0 .. Len(FORMAT_STR_TABLE) - 1 /\ e.length \in Int
     /\ e = [NewEvent EXCEPT !.type = e.type, !.format = e.format,
                             !.length = e.length]
  \/ /\ Is({"ERROR"})
     /\ e.id \in 0 .. Len(ERROR_STR_TABLE) - 1
     /\ e = [NewEvent EXCEPT !.type = e.type, !.id = e.id]
  \/ /\ Is({"TC"})
     /\ e.id \in Int /\ e.res \in Int
     /\ e = [NewEvent EXCEPT !.type = e.type, !.id = e.id, !.res = e.res]
  \/ /\ Is({"CMD"})
     /\ e.res \in Int /\ (e.command = NoXml \/ IsPrintedCommand(e.command))
     /\ e = [NewEvent EXCEPT !.type = e.type, !.res = e.res, !.command = e.command]

IsPrintedBus(b) ==
  LET named == [NewBus EXCEPT !.type = b.type, !.id = b.id, !.node = b.node]
      asked == [named EXCEPT !.syncId = b.syncId, !.buffer = b.buffer]
      Asks == b.node \in Value /\ b.syncId \in Int /\ b.buffer \in Value
  IN
  \/ /\ \/ IsBus(b, "EVENT", BusEvents,
                 {"NODE_ADDED", "NODE_DROPPED", "SET_DEFAULT_NODE"})
        \/ IsBus(b, "REQUEST", BusCmds, {"JOIN", "DROP"})
     /\ b.node \in Value /\ b = named
  \/ /\ IsBus(b, "EVENT", BusEvents, {"NETWORK_DETACHED"})
     /\ b = [NewBus EXCEPT !.type = b.type, !.id = b.id]
  \/ /\ IsBus(b, "REQUEST", BusCmds, {"LIST"})
     /\ Asks /\ b = asked
  \/ /\ IsBus(b, "RESPONSE", BusCmds, {"LIST"})
     /\ Asks /\ b.nodes \in Seq(Value) /\ b = [asked EXCEPT !.nodes = b.nodes]

IsPrinted(x) ==
  \/ x.class = "command" /\ IsPrintedCommand(x)
  \/ x.class = "event" /\ IsPrintedEvent(x)
  \/ x.class = "bus" /\ IsPrintedBus(x)

\* What is theirs and toXML() does not print: the time of a command, sent alone
\* or within an event, and a testcase number, for which the table of the error
\* names is read behind its end.
HasUnprinted(x) ==
  \/ x.class = "command" /\ x.time # 0
  \/ /\ x.class = "event"
     /\ \/ x.command # NoXml /\ x.command.time # 0
        \/ /\ x.type = Enum(EvtTypes, "TC")
           /\ x.id \notin 0 .. Len(ERROR_STR_TABLE) - 1

-----------------------------------------------------------------------------
(* parseXML() and the packet.                                              *)

\* parseTestCaseXML() makes a testcase of the id, the repeat count, which it
\* stores as the id, and the first command only, and returns NULL.
ParseTestCase(e) == NoXml

\* By the tag of the root.
ParseXml(e) ==
  CASE e.tag = "nodebus" -> ParseBus(e)
    [] e.tag = "event" -> ParseEvent(e)
    [] e.tag = "command" -> ParseCommand(e)
    [] e.tag = "testcase" -> ParseTestCase(e)
    [] OTHER -> NoXml

\* The header of an object's packet: what its toXML() returns.
Header(x) ==
  CASE x.class = "command" -> CommandElement(x)
    [] x.class = "event" -> EventElement(x)
    [] x.class = "bus" -> BusElement(x)

\* copyHeader(): no packet is made for what does not parse.  Only an event has
\* data behind the header.
NoPacket == [start |-> FALSE, header |-> NoElement, data |-> 0]

CopyHeader(e) ==
  LET x == ParseXml(e)
  IN  IF x = NoXml THEN NoPacket
      ELSE [start |-> TRUE, header |-> e,
            data |-> IF x.class = "event" THEN x.length ELSE 0]

\* parserPacket(): the object behind getXML(), none when the start code is
\* missing or the header does not parse.
ParserPacket(p) == IF p.start THEN ParseXml(p.header) ELSE NoXml
=============================================================================
