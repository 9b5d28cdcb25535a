---------------------------- MODULE AmqpLibrary ----------------------------
(***************************************************************************)
(* What the client sees of the AMQP library: the tables and the messages   *)
(* it fills in and takes apart, and the replies it decides upon.  "other"  *)
(* stands for the values of an enumeration that the client never names.    *)
(***************************************************************************)
EXTENDS Integers, Sequences

\* amqp_field_value_kind_t.
FieldKinds == {"BYTES", "I32", "I64", "other"}

\* A value carries its kind; of the union the member that belongs to it.
FieldValue(kind, value) == [kind |-> kind, value |-> value]

\* A table is a sequence of entries.
Entry(key, kind, value) == [key |-> key, value |-> FieldValue(kind, value)]
IsTable(table) ==
  \A i \in 1 .. Len(table) : table[i].value.kind \in FieldKinds

\* The flags say which members of the properties are set.
BasicFlags == {"CONTENT_TYPE", "HEADERS", "other"}
BasicProperties(flags, headers) == [flags |-> flags, headers |-> headers]

\* Bodies are of no interest here.
Message(properties) == [properties |-> properties]

-----------------------------------------------------------------------------

ReplyTypes == {"NONE", "NORMAL", "LIBRARY_EXCEPTION", "SERVER_EXCEPTION"}

\* The method of a server's answer, as far as the client looks at it.
Methods == {"none", "GET_EMPTY", "other"}

Statuses == {"OK", "TIMEOUT", "other"}

\* Only an exception of the library has a status, only one of the server or an
\* empty queue a method.
Replies ==
  {r \in [reply_type : ReplyTypes, id : Methods, library_error : Statuses] :
     /\ r.library_error # "OK" <=> r.reply_type = "LIBRARY_EXCEPTION"
     /\ r.reply_type = "SERVER_EXCEPTION" => r.id = "other"
     /\ r.id = "GET_EMPTY" => r.reply_type = "NORMAL"
     /\ r.reply_type \in {"NONE", "LIBRARY_EXCEPTION"} => r.id = "none"}

-----------------------------------------------------------------------------
\* A connection with its channel, as far as the client can tell: no object, one
\* that is not logged in, a working one, one whose channel the server has closed
\* because it refused a call, one whose peer is gone unnoticed, one the library
\* has closed.
Connections == {"null", "raw", "ok", "refused", "broken", "closed"}

\* amqp_new_connection, amqp_destroy_connection.
NewConnection == "raw"
NoConnection == "null"

\* amqp_get_sockfd: -1 if no socket is set, which depends on how far an
\* unfinished connection came.
Sockfds(connection) ==
  CASE connection = "closed" -> {-1}
    [] connection = "raw" -> {-1, 3}
    [] OTHER -> {3}

\* A synchronous call (declare, bind, consume): what amqp_get_rpc_reply says from
\* then on, for whoever asks, and the state it leaves.  The server may refuse a
\* call: the channel is closed with all its consumers, while the socket stays
\* open, and no call succeeds on it any more.  Calls that return their own reply
\* and the asynchronous publish leave the last reply alone.
Outcome(reply_type, connection) == [reply_type |-> reply_type, connection |-> connection]
CallOutcomes(connection) ==
  CASE connection = "ok" ->
         {Outcome("NORMAL", "ok"), Outcome("SERVER_EXCEPTION", "refused")}
    [] connection = "refused" -> {Outcome("SERVER_EXCEPTION", "refused")}
    [] connection = "broken" -> {Outcome("LIBRARY_EXCEPTION", "closed")}
    [] OTHER -> {Outcome("LIBRARY_EXCEPTION", connection)}

\* amqp_basic_publish: it may notice that the peer is gone.
AfterPublish(connection) ==
  IF connection = "broken" THEN {"broken", "closed"} ELSE {connection}

\* amqp_consume_message: a message or none in time, on a closed channel one that
\* had been delivered before at best; on a broken connection either,
\* for a while; an error from the library or, if the broker closes the
\* connection, from the server.
ConsumeReplies(connection) ==
  CASE connection \in {"ok", "refused"} ->
         {r \in Replies : r.reply_type = "NORMAL" \/ r.library_error = "TIMEOUT"}
    [] connection = "broken" -> Replies
    [] OTHER -> {r \in Replies : r.reply_type # "NORMAL" /\ r.library_error # "TIMEOUT"}
=============================================================================
