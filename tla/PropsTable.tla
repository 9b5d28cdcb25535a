----------------------------- MODULE PropsTable -----------------------------
(***************************************************************************)
(* The header table every message of the library carries: int_props_st,    *)
(* the table IntProps2AmqpTable makes of it and what AmqpTable2IntProps    *)
(* reads back, together with the properties the functions of rmMidLib.cpp  *)
(* fill in.  AMQP transports the table unchanged.  Texts that no code      *)
(* looks at (descriptions, message bodies, time stamps) are constants.     *)
(***************************************************************************)
EXTENDS AmqpLibrary, SequencesExt

CONSTANT CString(_)   \* the part of a text before its first NUL

MessageTypes ==
  {"RB_REQUEST", "RB_TEMPORARY_RESPONSE", "RB_FINAL_RESPONSE", "RB_NOTIFICATION",
   "RB_REPORT", "RB_TOPIC", "RB_BROADCAST", "RB_ECHOTEST"}

\* The keys of the table, and the field of int_props_st each one carries.
FieldOf ==
  [sender |-> "sender", recver |-> "receiver", msgtype |-> "msgtype",
   msgname |-> "msgname", rid |-> "rid", inarg |-> "inarg",
   timestamp |-> "timestamp", rspcode |-> "rspcode", rspdesc |-> "rspdesc",
   transparent |-> "trans"]

Fields == {FieldOf[k] : k \in DOMAIN FieldOf}

\* The kind AmqpTable2IntProps demands of a key.
KindOf(key) ==
  CASE key \in {"msgtype", "rid"} -> "I32"
    [] key \in {"inarg", "timestamp"} -> "I64"
    [] OTHER -> "BYTES"

\* A std::string is packed by amqp_cstring_bytes of its c_str().
IntProps2AmqpTable(p) ==
  LET TextEntry(key, text) == Entry(key, "BYTES", CString(text))
  IN  << TextEntry("sender", p.sender),          TextEntry("recver", p.receiver),
         Entry("msgtype", "I32", p.msgtype),     TextEntry("msgname", p.msgname),
         Entry("rid", "I32", p.rid),             Entry("inarg", "I64", p.inarg),
         Entry("timestamp", "I64", p.timestamp), TextEntry("rspcode", p.rspcode),
         TextEntry("rspdesc", p.rspdesc),        TextEntry("transparent", p.trans) >>

\* The flags a message is sent with: without HEADERS nobody reads the table.
SendFlags == {"CONTENT_TYPE", "HEADERS"}

\* One unknown key or wrong kind refuses the whole table.
Readable(properties) ==
  /\ "HEADERS" \in properties.flags
  /\ \A e \in ToSet(properties.headers) :
       e.key \in DOMAIN FieldOf /\ e.value.kind = KindOf(e.key)

\* The fields that a readable table sets; the last entry of a key counts.  A
\* field without an entry is left uninitialised, and so is not in the result.
AmqpTable2IntProps(table) ==
  [f \in {FieldOf[e.key] : e \in ToSet(table)} |->
     table[CHOOSE i \in DOMAIN table :
             /\ FieldOf[table[i].key] = f
             /\ \A j \in (i + 1) .. Len(table) : FieldOf[table[j].key] # f].value.value]

-----------------------------------------------------------------------------
\* The properties a message is made with.

NoPointer == 0

\* The texts below are literals of rmMidLib.cpp or came as const char *.
ASSUME TextAssumption ==
  \A text \in {"msgName", "temprsp", "finalrsp", "no code", "100", "200", "no description",
               "respDescr", "no transparent"} : CString(text) = text

\* rmRequestMake and rmNotifyMake: inArg travels to the peer and back in no one's
\* hands, the requester keeps its own copy with the task.
RequestProps(from, to, type, rid, inArg) ==
  [sender |-> from, receiver |-> to, msgtype |-> type, msgname |-> "msgName",
   rid |-> rid, inarg |-> inArg, timestamp |-> 0, rspcode |-> "no code",
   rspdesc |-> "no description", trans |-> "no transparent"]

\* rmReportMake: no rid, nothing comes back.
ReportProps(from, to) ==
  [sender |-> from, receiver |-> to, msgtype |-> "RB_REPORT", msgname |-> "msgName",
   rid |-> -1, inarg |-> NoPointer, timestamp |-> 0, rspcode |-> "no code",
   rspdesc |-> "no description", trans |-> "no transparent"]

\* rmRequestTempResponse.
TempProps(from, to, rpid, code) ==
  [sender |-> from, receiver |-> to, msgtype |-> "RB_TEMPORARY_RESPONSE",
   msgname |-> "temprsp", rid |-> rpid, inarg |-> NoPointer, timestamp |-> 0,
   rspcode |-> code, rspdesc |-> "respDescr", trans |-> "no transparent"]

\* rmRequestFinalResponse, also called for a notification that was handled.
FinalProps(from, to, rpid, code) ==
  [sender |-> from, receiver |-> to, msgtype |-> "RB_FINAL_RESPONSE",
   msgname |-> "finalrsp", rid |-> rpid, inarg |-> NoPointer, timestamp |-> 0,
   rspcode |-> code, rspdesc |-> "respDescr", trans |-> "no transparent"]
=============================================================================
