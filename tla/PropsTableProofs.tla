-------------------------- MODULE PropsTableProofs --------------------------
(***************************************************************************)
(* Proofs about PropsTable: whatever the properties of a message are, the  *)
(* table made of them is readable, and reading it gives them back, texts   *)
(* up to their first NUL.                                                  *)
(***************************************************************************)
EXTENDS PropsTable, TLAPS

\* Entry i of table t has the key, the kind and the value.
Carries(t, i, key, kind, value) ==
  t[i].key = key /\ t[i].value.kind = kind /\ t[i].value.value = value

LEMMA EntryParts ==
  ASSUME NEW t, NEW i, NEW k, NEW w, NEW v, t[i] = Entry(k, w, v)
  PROVE  Carries(t, i, k, w, v)
BY DEF Carries, Entry, FieldValue

\* The ten entries of a table.
LEMMA Entries ==
  ASSUME NEW p
  PROVE  LET t == IntProps2AmqpTable(p)
         IN  /\ Len(t) = 10 /\ DOMAIN t = 1 .. 10
             /\ Carries(t, 1, "sender", "BYTES", CString(p.sender))
             /\ Carries(t, 2, "recver", "BYTES", CString(p.receiver))
             /\ Carries(t, 3, "msgtype", "I32", p.msgtype)
             /\ Carries(t, 4, "msgname", "BYTES", CString(p.msgname))
             /\ Carries(t, 5, "rid", "I32", p.rid)
             /\ Carries(t, 6, "inarg", "I64", p.inarg)
             /\ Carries(t, 7, "timestamp", "I64", p.timestamp)
             /\ Carries(t, 8, "rspcode", "BYTES", CString(p.rspcode))
             /\ Carries(t, 9, "rspdesc", "BYTES", CString(p.rspdesc))
             /\ Carries(t, 10, "transparent", "BYTES", CString(p.trans))
<1> DEFINE t == IntProps2AmqpTable(p)
<1>1. Len(t) = 10 /\ DOMAIN t = 1 .. 10
  BY DEF IntProps2AmqpTable
<1>2. Carries(t, 1, "sender", "BYTES", CString(p.sender))
  BY EntryParts DEF IntProps2AmqpTable
<1>3. Carries(t, 2, "recver", "BYTES", CString(p.receiver))
  BY EntryParts DEF IntProps2AmqpTable
<1>4. Carries(t, 3, "msgtype", "I32", p.msgtype)
  BY EntryParts DEF IntProps2AmqpTable
<1>5. Carries(t, 4, "msgname", "BYTES", CString(p.msgname))
  BY EntryParts DEF IntProps2AmqpTable
<1>6. Carries(t, 5, "rid", "I32", p.rid)
  BY EntryParts DEF IntProps2AmqpTable
<1>7. Carries(t, 6, "inarg", "I64", p.inarg)
  BY EntryParts DEF IntProps2AmqpTable
<1>8. Carries(t, 7, "timestamp", "I64", p.timestamp)
  BY EntryParts DEF IntProps2AmqpTable
<1>9. Carries(t, 8, "rspcode", "BYTES", CString(p.rspcode))
  BY EntryParts DEF IntProps2AmqpTable
<1>10. Carries(t, 9, "rspdesc", "BYTES", CString(p.rspdesc))
  BY EntryParts DEF IntProps2AmqpTable
<1>11. Carries(t, 10, "transparent", "BYTES", CString(p.trans))
  BY EntryParts DEF IntProps2AmqpTable
<1> QED BY <1>1, <1>2, <1>3, <1>4, <1>5, <1>6, <1>7, <1>8, <1>9, <1>10, <1>11

\* The field each entry belongs to.
LEMMA EntryFields ==
  /\ FieldOf["sender"] = "sender" /\ FieldOf["recver"] = "receiver"
  /\ FieldOf["msgtype"] = "msgtype" /\ FieldOf["msgname"] = "msgname"
  /\ FieldOf["rid"] = "rid" /\ FieldOf["inarg"] = "inarg"
  /\ FieldOf["timestamp"] = "timestamp" /\ FieldOf["rspcode"] = "rspcode"
  /\ FieldOf["rspdesc"] = "rspdesc" /\ FieldOf["transparent"] = "trans"
  /\ DOMAIN FieldOf = {"sender", "recver", "msgtype", "msgname", "rid", "inarg",
                       "timestamp", "rspcode", "rspdesc", "transparent"}
BY DEF FieldOf

Names == <<"sender", "receiver", "msgtype", "msgname", "rid", "inarg", "timestamp",
           "rspcode", "rspdesc", "trans">>

LEMMA NamesInOrder ==
  /\ Names[1] = "sender"
  /\ Names[2] = "receiver"
  /\ Names[3] = "msgtype"
  /\ Names[4] = "msgname"
  /\ Names[5] = "rid"
  /\ Names[6] = "inarg"
  /\ Names[7] = "timestamp"
  /\ Names[8] = "rspcode"
  /\ Names[9] = "rspdesc"
  /\ Names[10] = "trans"
BY DEF Names

\* The key and the kind of every entry.
LEMMA EntryKeys ==
  ASSUME NEW p, NEW t, t = IntProps2AmqpTable(p)
  PROVE  /\ t[1].key = "sender" /\ t[1].value.kind = "BYTES"
         /\ t[2].key = "recver" /\ t[2].value.kind = "BYTES"
         /\ t[3].key = "msgtype" /\ t[3].value.kind = "I32"
         /\ t[4].key = "msgname" /\ t[4].value.kind = "BYTES"
         /\ t[5].key = "rid" /\ t[5].value.kind = "I32"
         /\ t[6].key = "inarg" /\ t[6].value.kind = "I64"
         /\ t[7].key = "timestamp" /\ t[7].value.kind = "I64"
         /\ t[8].key = "rspcode" /\ t[8].value.kind = "BYTES"
         /\ t[9].key = "rspdesc" /\ t[9].value.kind = "BYTES"
         /\ t[10].key = "transparent" /\ t[10].value.kind = "BYTES"
<1>1. t[1].key = "sender" /\ t[1].value.kind = "BYTES"
  BY DEF IntProps2AmqpTable, Entry, FieldValue
<1>2. t[2].key = "recver" /\ t[2].value.kind = "BYTES"
  BY DEF IntProps2AmqpTable, Entry, FieldValue
<1>3. t[3].key = "msgtype" /\ t[3].value.kind = "I32"
  BY DEF IntProps2AmqpTable, Entry, FieldValue
<1>4. t[4].key = "msgname" /\ t[4].value.kind = "BYTES"
  BY DEF IntProps2AmqpTable, Entry, FieldValue
<1>5. t[5].key = "rid" /\ t[5].value.kind = "I32"
  BY DEF IntProps2AmqpTable, Entry, FieldValue
<1>6. t[6].key = "inarg" /\ t[6].value.kind = "I64"
  BY DEF IntProps2AmqpTable, Entry, FieldValue
<1>7. t[7].key = "timestamp" /\ t[7].value.kind = "I64"
  BY DEF IntProps2AmqpTable, Entry, FieldValue
<1>8. t[8].key = "rspcode" /\ t[8].value.kind = "BYTES"
  BY DEF IntProps2AmqpTable, Entry, FieldValue
<1>9. t[9].key = "rspdesc" /\ t[9].value.kind = "BYTES"
  BY DEF IntProps2AmqpTable, Entry, FieldValue
<1>10. t[10].key = "transparent" /\ t[10].value.kind = "BYTES"
  BY DEF IntProps2AmqpTable, Entry, FieldValue
<1> QED BY <1>1, <1>2, <1>3, <1>4, <1>5, <1>6, <1>7, <1>8, <1>9, <1>10

\* The key of every entry is the key of its field.
LEMMA KeysAreFields ==
  ASSUME NEW p
  PROVE  LET t == IntProps2AmqpTable(p)
         IN  \A i \in 1 .. 10 : FieldOf[t[i].key] = Names[i]
<1> DEFINE t == IntProps2AmqpTable(p)
           Right(i) == FieldOf[t[i].key] = Names[i]
<1> HIDE DEF t
<1>k. t = IntProps2AmqpTable(p)
  BY DEF t
<1>1a. Right(1)
  BY <1>k, EntryKeys, EntryFields, NamesInOrder
<1>1b. Right(2)
  BY <1>k, EntryKeys, EntryFields, NamesInOrder
<1>1c. Right(3)
  BY <1>k, EntryKeys, EntryFields, NamesInOrder
<1>1d. Right(4)
  BY <1>k, EntryKeys, EntryFields, NamesInOrder
<1>1e. Right(5)
  BY <1>k, EntryKeys, EntryFields, NamesInOrder
<1>1f. Right(6)
  BY <1>k, EntryKeys, EntryFields, NamesInOrder
<1>1g. Right(7)
  BY <1>k, EntryKeys, EntryFields, NamesInOrder
<1>1h. Right(8)
  BY <1>k, EntryKeys, EntryFields, NamesInOrder
<1>1i. Right(9)
  BY <1>k, EntryKeys, EntryFields, NamesInOrder
<1>1j. Right(10)
  BY <1>k, EntryKeys, EntryFields, NamesInOrder
<1> HIDE DEF Right
<1>2. \A i \in 1 .. 10 : Right(i)
  BY <1>1a, <1>1b, <1>1c, <1>1d, <1>1e, <1>1f, <1>1g, <1>1h, <1>1i, <1>1j
<1> QED BY <1>2 DEF Right, t

LEMMA NamesDiffer == \A i, j \in 1 .. 10 : Names[i] = Names[j] => i = j
<1> DEFINE place == [sender |-> 1, receiver |-> 2, msgtype |-> 3, msgname |-> 4, rid |-> 5,
                     inarg |-> 6, timestamp |-> 7, rspcode |-> 8, rspdesc |-> 9, trans |-> 10]
<1>1. \A i \in 1 .. 10 : place[Names[i]] = i
  BY DEF Names
<1> HIDE DEF place
<1> QED BY <1>1

LEMMA NamesAreFields == \A f : f \in Fields <=> \E i \in 1 .. 10 : f = Names[i]
<1>1. Fields = {"sender", "receiver", "msgtype", "msgname", "rid", "inarg", "timestamp",
                "rspcode", "rspdesc", "trans"}
  BY EntryFields DEF Fields
<1>2. \A i \in 1 .. 10 : Names[i] \in Fields
  BY <1>1 DEF Names
<1>3. \A f \in Fields : \E i \in 1 .. 10 : f = Names[i]
  <2> DEFINE N(f) == \E i \in 1 .. 10 : f = Names[i]
  <2>2. /\ N("sender") /\ N("receiver") /\ N("msgtype") /\ N("msgname") /\ N("rid")
        /\ N("inarg") /\ N("timestamp") /\ N("rspcode") /\ N("rspdesc") /\ N("trans")
    BY NamesInOrder
  <2> HIDE DEF N
  <2>3. \A f \in Fields : N(f)
    BY <1>1, <2>2
  <2> QED BY <2>3 DEF N
<1> QED BY <1>2, <1>3

\* Reading the table finds for every field the one entry that carries it.
LEMMA ReadsEntry ==
  ASSUME NEW p, NEW i \in 1 .. 10
  PROVE  LET t == IntProps2AmqpTable(p)
         IN  AmqpTable2IntProps(t)[Names[i]] = t[i].value.value
<1> DEFINE t == IntProps2AmqpTable(p)
           S == {FieldOf[e.key] : e \in ToSet(t)}
           LastOf(f, k) == /\ FieldOf[t[k].key] = f
                         /\ \A j \in (k + 1) .. Len(t) : FieldOf[t[j].key] # f
<1>1. DOMAIN t = 1 .. 10 /\ Len(t) = 10
  BY Entries
<1>2. \A k \in 1 .. 10 : FieldOf[t[k].key] = Names[k]
  BY KeysAreFields
<1>3. AmqpTable2IntProps(t) = [f \in S |-> t[CHOOSE k \in DOMAIN t : LastOf(f, k)].value.value]
  BY DEF AmqpTable2IntProps
<1> HIDE DEF t
<1>4. Names[i] \in S
  BY <1>1, <1>2 DEF ToSet
<1>5. LastOf(Names[i], i) /\ \A k \in DOMAIN t : LastOf(Names[i], k) => k = i
  BY <1>1, <1>2, NamesDiffer
<1> HIDE DEF LastOf, S
<1>6. (CHOOSE k \in DOMAIN t : LastOf(Names[i], k)) = i
  BY <1>1, <1>5
<1>7. AmqpTable2IntProps(t)[Names[i]] = t[i].value.value
  BY <1>3, <1>4, <1>6
<1> QED BY <1>7 DEF t

LEMMA ReadsAllFields ==
  ASSUME NEW p
  PROVE  DOMAIN AmqpTable2IntProps(IntProps2AmqpTable(p)) = Fields
<1> DEFINE t == IntProps2AmqpTable(p)
           S == {FieldOf[e.key] : e \in ToSet(t)}
<1>1. DOMAIN AmqpTable2IntProps(t) = S
  BY DEF AmqpTable2IntProps
<1>2. DOMAIN t = 1 .. 10 /\ \A k \in 1 .. 10 : FieldOf[t[k].key] = Names[k]
  BY Entries, KeysAreFields
<1> HIDE DEF t
<1>3. \A f : f \in S <=> \E k \in 1 .. 10 : f = Names[k]
  BY <1>2 DEF ToSet
<1> QED BY <1>1, <1>3, NamesAreFields DEF t

LEMMA KeyKinds ==
  /\ KindOf("sender") = "BYTES"
  /\ KindOf("recver") = "BYTES"
  /\ KindOf("msgtype") = "I32"
  /\ KindOf("msgname") = "BYTES"
  /\ KindOf("rid") = "I32"
  /\ KindOf("inarg") = "I64"
  /\ KindOf("timestamp") = "I64"
  /\ KindOf("rspcode") = "BYTES"
  /\ KindOf("rspdesc") = "BYTES"
  /\ KindOf("transparent") = "BYTES"
BY DEF KindOf

\* What IntProps2AmqpTable packs, AmqpTable2IntProps unpacks: every field, with its
\* own value, a text up to its first NUL, and no field is left uninitialised.
THEOREM RoundTrip ==
  ASSUME NEW p
  PROVE  LET q == AmqpTable2IntProps(IntProps2AmqpTable(p))
         IN  /\ DOMAIN q = Fields
             /\ q.sender = CString(p.sender) /\ q.receiver = CString(p.receiver)
             /\ q.msgtype = p.msgtype /\ q.msgname = CString(p.msgname) /\ q.rid = p.rid
             /\ q.inarg = p.inarg /\ q.timestamp = p.timestamp
             /\ q.rspcode = CString(p.rspcode) /\ q.rspdesc = CString(p.rspdesc)
             /\ q.trans = CString(p.trans)
<1> DEFINE t == IntProps2AmqpTable(p)
           q == AmqpTable2IntProps(t)
<1>1. \A i \in 1 .. 10 : q[Names[i]] = t[i].value.value
  BY ReadsEntry
<1>2. /\ t[1].value.value = CString(p.sender) /\ t[2].value.value = CString(p.receiver)
      /\ t[3].value.value = p.msgtype /\ t[4].value.value = CString(p.msgname)
      /\ t[5].value.value = p.rid /\ t[6].value.value = p.inarg
      /\ t[7].value.value = p.timestamp /\ t[8].value.value = CString(p.rspcode)
      /\ t[9].value.value = CString(p.rspdesc) /\ t[10].value.value = CString(p.trans)
  BY Entries DEF Carries
<1> HIDE DEF q, t
<1>3. /\ q["sender"] = CString(p.sender) /\ q["receiver"] = CString(p.receiver)
      /\ q["msgtype"] = p.msgtype /\ q["msgname"] = CString(p.msgname) /\ q["rid"] = p.rid
      /\ q["inarg"] = p.inarg /\ q["timestamp"] = p.timestamp
      /\ q["rspcode"] = CString(p.rspcode) /\ q["rspdesc"] = CString(p.rspdesc)
      /\ q["trans"] = CString(p.trans)
  BY <1>1, <1>2, NamesInOrder
<1>4. DOMAIN q = Fields
  BY ReadsAllFields DEF q, t
<1> QED BY <1>3, <1>4 DEF q, t

\* A table the library has packed is never refused: every key is known and every
\* value of the kind that is asked for.
THEOREM PackedIsReadable ==
  ASSUME NEW p
  PROVE  Readable(BasicProperties(SendFlags, IntProps2AmqpTable(p)))
<1> DEFINE t == IntProps2AmqpTable(p)
<1>1. DOMAIN t = 1 .. 10
  BY Entries
<1> DEFINE Right(i) == t[i].key \in DOMAIN FieldOf /\ t[i].value.kind = KindOf(t[i].key)
<1>2. \A i \in 1 .. 10 : Right(i)
  <2> HIDE DEF t
  <2>k. t = IntProps2AmqpTable(p)
    BY DEF t
  <2>1a. Right(1)
    BY <2>k, EntryKeys, EntryFields, KeyKinds
  <2>1b. Right(2)
    BY <2>k, EntryKeys, EntryFields, KeyKinds
  <2>1c. Right(3)
    BY <2>k, EntryKeys, EntryFields, KeyKinds
  <2>1d. Right(4)
    BY <2>k, EntryKeys, EntryFields, KeyKinds
  <2>1e. Right(5)
    BY <2>k, EntryKeys, EntryFields, KeyKinds
  <2>1f. Right(6)
    BY <2>k, EntryKeys, EntryFields, KeyKinds
  <2>1g. Right(7)
    BY <2>k, EntryKeys, EntryFields, KeyKinds
  <2>1h. Right(8)
    BY <2>k, EntryKeys, EntryFields, KeyKinds
  <2>1i. Right(9)
    BY <2>k, EntryKeys, EntryFields, KeyKinds
  <2>1j. Right(10)
    BY <2>k, EntryKeys, EntryFields, KeyKinds
  <2> HIDE DEF Right
  <2> QED BY <2>1a, <2>1b, <2>1c, <2>1d, <2>1e, <2>1f, <2>1g, <2>1h, <2>1i, <2>1j
<1> HIDE DEF t
<1>3. \A e \in ToSet(t) : e.key \in DOMAIN FieldOf /\ e.value.kind = KindOf(e.key)
  BY <1>1, <1>2 DEF ToSet
<1> QED BY <1>3 DEF Readable, BasicProperties, SendFlags, t
=============================================================================
