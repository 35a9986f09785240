---------------------------- MODULE MCDefaultNode ----------------------------
(***************************************************************************)
(* DefaultNode for TLC, with a set of objects that has every type of       *)
(* command and of event, and the fields and lists they carry.              *)
(***************************************************************************)
EXTENDS DefaultNode

Args ==
  LET a == Argument(Word(""), Word("v1"))
      b == Argument(Word("key"), Word("v2"))
  IN  {<<>>, <<a>>, <<b, a>>, <<a, a, b>>}

CommandOf(w, time, args) ==
  [NewCommand EXCEPT !.type = Enum(CmdTypes, w), !.time = time, !.args = args]

EventOf(w) == [NewEvent EXCEPT !.type = Enum(EvtTypes, w)]

Commands ==
  {CommandOf(w, 0, <<>>) : w \in Range(CMD_STR_TABLE)}
    \cup {CommandOf("RPC", time, args) : time \in {0, 100}, args \in Args}

Events ==
  {EventOf(w) : w \in {"REGOK", "REGFAIL", "READY"}}
    \cup {[EventOf(w) EXCEPT !.format = f, !.length = 3] :
            w \in {"LOG", "IMG", "INFO"}, f \in {0, 4}}
    \cup {[EventOf("ERROR") EXCEPT !.id = i] : i \in {0, 1}}
    \cup {[EventOf("TC") EXCEPT !.id = i, !.res = 1] : i \in {1, 5123}}
    \cup {[EventOf("CMD") EXCEPT !.res = 1]}
    \cup {[EventOf("CMD") EXCEPT
              !.command = CommandOf("KEY", time, CHOOSE s \in Args : Len(s) = 2)] :
            time \in {0, 5}}

BusOf(type, id) ==
  [NewBus EXCEPT !.type = Num(Enum(BusTypes, type)), !.id = Num(id),
                 !.node = Word("n1")]

Requests ==
  {BusOf("REQUEST", Enum(BusCmds, w)) : w \in {"JOIN", "DROP"}}
    \cup {[BusOf("REQUEST", Enum(BusCmds, "LIST")) EXCEPT
             !.syncId = 7, !.buffer = Word("0x1")]}
    \cup {BusOf("EVENT", Enum(BusEvents, w)) :
            w \in {"NODE_ADDED", "NODE_DROPPED", "SET_DEFAULT_NODE"}}
    \cup {[BusOf("EVENT", Enum(BusEvents, "NETWORK_DETACHED")) EXCEPT !.node = Unset]}

AllMessages == Commands \cup Events \cup Requests

ListAnswers ==
  {[BusOf("RESPONSE", Enum(BusCmds, "LIST")) EXCEPT
      !.syncId = 7, !.buffer = Word("0x1"), !.nodes = s] :
     s \in {<<Word("n1")>>, <<Word("n1"), Word("n2"), Word("n3")>>}}

\* What MisreadOnlyUnprinted is proved from holds of these objects.
ASSUME ObjectsArePrinted == AllPrinted
=============================================================================
