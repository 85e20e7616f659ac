-------------------------- MODULE HidReportsProofs --------------------------
(***************************************************************************)
(* Theorems about the data of the reports that go through hidapi, for any  *)
(* reports, ids and buffers.  The lemmas on bytes, sequences and recursion *)
(* are those of HidDescriptorProofs.                                       *)
(***************************************************************************)
EXTENDS HidDescriptorProofs

LEMMA UptoIs ==
  ASSUME NEW n \in Nat, NEW S, NEW s \in Seq(S)
  PROVE  /\ Upto(n, s) \in Seq(S)
         /\ Len(Upto(n, s)) = IF n < Len(s) THEN n ELSE Len(s)
         /\ \A i \in 1 .. Len(Upto(n, s)) : Upto(n, s)[i] = s[i]
<1>1. CASE n < Len(s)
  <2>1. Upto(n, s) = SubSeq(s, 1, n) /\ Len(s) \in Nat
    BY <1>1 DEF Upto
  <2> QED
    BY <1>1, <2>1
<1>2. CASE ~(n < Len(s))
  <2>1. Upto(n, s) = SubSeq(s, 1, Len(s)) /\ Len(s) \in Nat
    BY <1>2 DEF Upto
  <2> QED
    BY <1>2, <2>1
<1> QED
  BY <1>1, <1>2

LEMMA UptoAll ==
  ASSUME NEW S, NEW s \in Seq(S), NEW n \in Nat, n >= Len(s)
  PROVE  Upto(n, s) = s
<1>1. Upto(n, s) = SubSeq(s, 1, Len(s)) /\ Len(s) \in Nat
  BY DEF Upto
<1> QED
  BY <1>1

LEMMA OntoIs ==
  ASSUME NEW S, NEW old \in Seq(S), NEW offset \in Nat, NEW bytes \in Seq(S),
         offset + Len(bytes) <= Len(old)
  PROVE  /\ Onto(old, offset, bytes) \in Seq(S)
         /\ Len(Onto(old, offset, bytes)) = Len(old)
         /\ \A i \in 1 .. offset : Onto(old, offset, bytes)[i] = old[i]
         /\ \A i \in 1 .. Len(bytes) : Onto(old, offset, bytes)[offset + i] = bytes[i]
<1> DEFINE before == Upto(offset, old)
           after == SubSeq(old, offset + Len(bytes) + 1, Len(old))
<1>1. Len(old) \in Nat /\ Len(bytes) \in Nat
  OBVIOUS
<1>2. /\ before \in Seq(S) /\ Len(before) = offset
      /\ \A i \in 1 .. offset : before[i] = old[i]
  BY <1>1, UptoIs
<1>3. after \in Seq(S) /\ Len(after) = Len(old) - (offset + Len(bytes))
  BY <1>1
<1>4. Onto(old, offset, bytes) = (before \o bytes) \o after
  BY DEF Onto
<1> HIDE DEF before, after
<1>5. /\ before \o bytes \in Seq(S) /\ Len(before \o bytes) = offset + Len(bytes)
      /\ \A i \in 1 .. offset : (before \o bytes)[i] = before[i]
      /\ \A i \in 1 .. Len(bytes) : (before \o bytes)[offset + i] = bytes[i]
  <2>0. before \in Seq(S)
    BY <1>2
  <2>1. /\ before \o bytes \in Seq(S) /\ Len(before \o bytes) = Len(before) + Len(bytes)
        /\ \A i \in 1 .. Len(before) : (before \o bytes)[i] = before[i]
        /\ \A i \in 1 .. Len(bytes) : (before \o bytes)[Len(before) + i] = bytes[i]
    BY ONLY <2>0, bytes \in Seq(S), JoinedIs
  <2> QED
    BY <1>2, <2>1
<1> DEFINE front == before \o bytes
<1> HIDE DEF front
<1>6. /\ front \o after \in Seq(S) /\ Len(front \o after) = Len(front) + Len(after)
      /\ \A i \in 1 .. Len(front) : (front \o after)[i] = front[i]
  BY <1>3, <1>5, JoinedIs DEF front
<1>7. \A i \in 1 .. offset : i \in 1 .. offset + Len(bytes)
  BY <1>1
<1>8. \A i \in 1 .. Len(bytes) : offset + i \in 1 .. offset + Len(bytes)
  BY <1>1
<1> QED
  BY <1>1, <1>2, <1>3, <1>4, <1>5, <1>6, <1>7, <1>8 DEF front

LEMMA ZerosIs == \A n \in Nat : Zeros(n) \in Seq(Byte) /\ Len(Zeros(n)) = n
BY DEF Zeros, Byte

LEMMA LongestIs ==
  \A p \in Payloads : Longest \in Nat /\ Len(p) + 1 <= Longest
<1> DEFINE long == CHOOSE p \in Payloads : \A q \in Payloads : Len(p) >= Len(q)
<1>1. long \in Payloads /\ \A q \in Payloads : Len(long) >= Len(q)
  BY ReportsAssumption
<1>2. \A q \in Payloads : Len(q) \in Nat
  BY ReportsAssumption
<1>3. Longest = Len(long) + 1
  BY DEF Longest
<1> HIDE DEF long
<1> QED
  BY <1>1, <1>2, <1>3

(* A transfer that has been asked for. *)
Waiting ==
  /\ io.os \in {"libusb", "mac", "linux", "netbsd", "windows"}
  /\ io.function \in Sends \cup {"get_report", "hid_read"}
  /\ io.data \in Seq(Byte)
  /\ io.report \in Seq(Byte) /\ Len(io.report) >= 1 /\ Len(io.report) <= Longest
  /\ Longest \in Nat
  /\ io.function = "get_report" /\ io.data # <<>> => io.report[1] = io.data[1]
  /\ buffer = io.data

LEMMA InitReport == ReportsInit => Waiting /\ pending = TRUE
<1> SUFFICES ASSUME ReportsInit PROVE Waiting
  BY DEF ReportsInit
<1>1. PICK os \in {"libusb", "mac", "linux", "netbsd", "windows"}, ids \in ReportIds,
           function \in Sends \cup {"get_report", "hid_read"}, p \in Payloads, n \in 0 .. Room :
     \E id, from \in ids :
       io = [os |-> os, function |-> function, ids |-> ids, report |-> <<from>> \o p,
             data |-> Upto(n, <<id>> \o IF function \in Sends THEN p \o p ELSE Zeros(Room))]
  BY DEF ReportsInit
<1>2. PICK id \in ids, from \in ids :
       io = [os |-> os, function |-> function, ids |-> ids, report |-> <<from>> \o p,
             data |-> Upto(n, <<id>> \o IF function \in Sends THEN p \o p ELSE Zeros(Room))]
  BY <1>1
<1> DEFINE content == IF function \in Sends THEN p \o p ELSE Zeros(Room)
<1>3. p \in Seq(Byte) /\ Len(p) \in Nat /\ id \in Byte /\ from \in Byte
  BY ReportsAssumption DEF Byte
<1>4. content \in Seq(Byte)
  <2>1. p \o p \in Seq(Byte)
    BY <1>3
  <2>2. Zeros(Room) \in Seq(Byte)
    BY ZerosIs, ReportsAssumption
  <2> QED
    BY <2>1, <2>2
<1> HIDE DEF content
<1>5. <<id>> \o content \in Seq(Byte)
  BY <1>3, <1>4
<1>6. n \in Nat
  BY ReportsAssumption
<1>7. io.data \in Seq(Byte)
  <2>1. io.data = Upto(n, <<id>> \o content)
    BY <1>2 DEF content
  <2> QED
    BY <1>5, <1>6, <2>1, UptoIs
<1>8. /\ io.report \in Seq(Byte) /\ Len(io.report) = Len(p) + 1
  BY <1>2, <1>3
<1>9. Longest \in Nat /\ Len(p) + 1 <= Longest
  BY LongestIs
<1>10. io.function = "get_report" /\ io.data # <<>> => io.report[1] = io.data[1]
  <2>1. io.function = "get_report" /\ io.data # <<>> => Head(io.report) = Head(io.data)
    BY DEF ReportsInit
  <2>2. Len(io.report) >= 1
    BY <1>3, <1>8
  <2> QED
    BY <1>7, <1>8, <2>1, <2>2
<1>11. io.os = os /\ io.function = function /\ buffer = io.data
  BY <1>2 DEF ReportsInit
<1> QED
  BY <1>3, <1>7, <1>8, <1>9, <1>10, <1>11 DEF Waiting

LEMMA InitNone == NoTransfer => ReportIsWhole /\ pending = FALSE
<1> SUFFICES ASSUME NoTransfer PROVE ReportIsWhole
  BY DEF NoTransfer
<1>1. /\ io.os = "linux" /\ io.function = "hid_read" /\ io.data = <<>> /\ io.report = <<0>>
      /\ buffer = <<>> /\ returned = 0
  BY DEF NoTransfer
<1>2. OnWire(io.report) = <<>>
  BY <1>1 DEF OnWire
<1>3. Upto(0, <<>>) = <<>> /\ Len(<<>>) = 0
  BY DEF Upto
<1> QED
  BY <1>1, <1>2, <1>3 DEF ReportIsWhole, Sends

LEMMA SkippedIs ==
  ASSUME Waiting, io.data # <<>>
  PROVE  /\ Head(io.data) = io.data[1] /\ Len(io.data) \in Nat \ {0}
         /\ Skipped = IF io.data[1] = 0 THEN 1 ELSE 0
<1>1. io.data \in Seq(Byte) /\ Len(io.data) \in Nat \ {0} /\ Head(io.data) = io.data[1]
  BY DEF Waiting
<1> QED
  BY <1>1 DEF Skipped

(* Taking the id apart and putting it before the data again.               *)
LEMMA Reassembled ==
  ASSUME Waiting, io.data # <<>>
  PROVE  /\ OffWire(Head(io.data), SubSeq(io.data, 1 + Skipped, Len(io.data))) = io.data
         /\ Len(SubSeq(io.data, 1 + Skipped, Len(io.data))) + Skipped = Len(io.data)
<1>1. io.data \in Seq(Byte) /\ Len(io.data) \in Nat \ {0}
  BY SkippedIs DEF Waiting
<1>2. CASE io.data[1] = 0
  <2> DEFINE rest == SubSeq(io.data, 2, Len(io.data))
  <2>1. /\ rest \in Seq(Byte) /\ Len(rest) = Len(io.data) - 1
        /\ \A i \in 1 .. Len(rest) : rest[i] = io.data[i + 1]
    BY <1>1
  <2>2. Skipped = 1 /\ Head(io.data) = 0
    BY <1>2, SkippedIs
  <2> HIDE DEF rest
  <2>3. <<0>> \in Seq(Byte) /\ Len(<<0>>) = 1 /\ <<0>>[1] = 0
    BY DEF Byte
  <2>4. /\ <<0>> \o rest \in Seq(Byte) /\ Len(<<0>> \o rest) = 1 + Len(rest)
        /\ (<<0>> \o rest)[1] = 0
        /\ \A i \in 1 .. Len(rest) : (<<0>> \o rest)[1 + i] = rest[i]
    <3>1. /\ <<0>> \o rest \in Seq(Byte) /\ Len(<<0>> \o rest) = Len(<<0>>) + Len(rest)
          /\ \A i \in 1 .. Len(<<0>>) : (<<0>> \o rest)[i] = <<0>>[i]
          /\ \A i \in 1 .. Len(rest) : (<<0>> \o rest)[Len(<<0>>) + i] = rest[i]
      BY <2>1, <2>3, JoinedIs, SMTT(40)
    <3> QED
      BY <2>3, <3>1
  <2>5. ASSUME NEW i \in 1 .. Len(io.data) PROVE (<<0>> \o rest)[i] = io.data[i]
    <3>1. CASE i = 1
      BY <1>2, <2>4, <3>1
    <3>2. CASE i # 1
      <4>1. i - 1 \in 1 .. Len(rest) /\ 1 + (i - 1) = i /\ (i - 1) + 1 = i
        BY <1>1, <2>1, <3>2
      <4> QED
        BY <2>1, <2>4, <4>1
    <3> QED
      BY <3>1, <3>2
  <2>6. <<0>> \o rest = io.data
    BY <1>1, <2>1, <2>4, <2>5, SeqEqual
  <2>7. Len(rest) + 1 = Len(io.data)
    BY <1>1, <2>1
  <2> QED
    BY <2>2, <2>6, <2>7 DEF OffWire, rest
<1>3. CASE io.data[1] # 0
  <2>1. Skipped = 0 /\ Head(io.data) # 0
    BY <1>3, SkippedIs
  <2>2. SubSeq(io.data, 1, Len(io.data)) = io.data
    BY <1>1
  <2> QED
    BY <1>1, <2>1, <2>2 DEF OffWire
<1> QED
  BY <1>2, <1>3

LEMMA FailWhole ==
  ASSUME Waiting, Fail
  PROVE  ReportIsWhole' /\ pending' = FALSE
<1>1. returned' = -1 /\ pending' = FALSE /\ io' = io /\ buffer' = buffer
  BY DEF Fail, Returns
<1>2. ~(returned' >= 0) /\ Len(buffer') = Len(io'.data)
  BY <1>1 DEF Waiting
<1> QED
  BY <1>1, <1>2 DEF ReportIsWhole

(* What is cut off anywhere, or filled up. *)
LEMMA CutAgrees ==
  ASSUME NEW n \in Nat, NEW data \in Seq(Byte), NEW rest \in Seq(Byte)
  PROVE  Agree(Upto(n, data \o rest), data)
<1> DEFINE both == data \o rest
           cut == Upto(n, both)
           one == Upto(Len(cut), data)
           other == Upto(Len(data), cut)
<1>1. /\ both \in Seq(Byte) /\ Len(both) = Len(data) + Len(rest)
      /\ \A i \in 1 .. Len(data) : both[i] = data[i]
      /\ Len(data) \in Nat /\ Len(rest) \in Nat
  BY JoinedIs, SMTT(40)
<1> HIDE DEF both
<1>2. /\ cut \in Seq(Byte) /\ Len(cut) \in Nat
      /\ \A i \in 1 .. Len(cut) : cut[i] = both[i]
  BY <1>1, UptoIs
<1> HIDE DEF cut
<1>3. /\ one \in Seq(Byte) /\ Len(one) = IF Len(cut) < Len(data) THEN Len(cut) ELSE Len(data)
      /\ \A i \in 1 .. Len(one) : one[i] = data[i]
  BY <1>2, UptoIs
<1>4. /\ other \in Seq(Byte) /\ Len(other) = IF Len(data) < Len(cut) THEN Len(data) ELSE Len(cut)
      /\ \A i \in 1 .. Len(other) : other[i] = cut[i]
  BY <1>1, <1>2, UptoIs
<1> HIDE DEF one, other
<1>5. Len(one) = Len(other)
  BY <1>1, <1>2, <1>3, <1>4
<1>6. ASSUME NEW i \in 1 .. Len(one) PROVE one[i] = other[i]
  <2>1. i \in 1 .. Len(data) /\ i \in 1 .. Len(cut) /\ i \in 1 .. Len(other)
    BY <1>1, <1>2, <1>3, <1>5
  <2> QED
    BY <1>1, <1>2, <1>3, <1>4, <2>1
<1>7. one = other
  BY <1>3, <1>4, <1>5, <1>6, SeqEqual
<1> QED
  BY <1>7 DEF Agree, one, other, cut, both

(* Filled up to a length and cut to it. *)
LEMMA CutPadded ==
  ASSUME NEW longest \in Nat, NEW data \in Seq(Byte),
         NEW n, n = IF Len(data) < longest THEN longest - Len(data) ELSE 0
  PROVE  Upto(longest, data \o Zeros(n)) = Upto(longest, data) \o Zeros(n)
<1>1. Len(data) \in Nat
  OBVIOUS
<1>2. CASE Len(data) < longest
  <2>1. n = longest - Len(data) /\ n \in Nat
    BY <1>1, <1>2
  <2>2. Upto(longest, data) = data
    <3>1. longest >= Len(data)
      BY <1>1, <1>2
    <3> QED
      BY <3>1, UptoAll
  <2> DEFINE zeros == Zeros(n)
  <2>3. zeros \in Seq(Byte) /\ Len(zeros) = n
    BY <2>1, ZerosIs
  <2> HIDE DEF zeros
  <2>4. data \o zeros \in Seq(Byte) /\ Len(data \o zeros) = Len(data) + Len(zeros)
    BY <2>3, JoinedIs, SMTT(40)
  <2>5. longest >= Len(data \o zeros)
    BY <1>1, <2>1, <2>3, <2>4
  <2>6. Upto(longest, data \o zeros) = data \o zeros
    BY <2>4, <2>5, UptoAll
  <2> QED
    BY <2>2, <2>6 DEF zeros
<1>3. CASE ~(Len(data) < longest)
  <2>1. n = 0 /\ Zeros(n) = <<>>
    BY <1>3 DEF Zeros
  <2>2. Upto(longest, data) \in Seq(Byte)
    BY UptoIs
  <2>3. data \o <<>> = data /\ Upto(longest, data) \o <<>> = Upto(longest, data)
    BY <2>2
  <2> QED
    BY <2>1, <2>3
<1> QED
  BY <1>2, <1>3

(* What is sent. *)
LEMMA SendWhole ==
  ASSUME Waiting, Send
  PROVE  ReportIsWhole' /\ pending' = FALSE
<1>1. io.data # <<>> /\ io.function \in Sends
  BY DEF Send
<1>2. Len(buffer) = Len(io.data) /\ io.data \in Seq(Byte) /\ Len(io.data) \in Nat
  BY DEF Waiting
<1>3. ASSUME NEW n, io.os \notin {"netbsd", "windows"}, SendAs(io.data, n), n = Len(io.data)
      PROVE  ReportIsWhole' /\ pending' = FALSE
  BY <1>1, <1>2, <1>3 DEF SendAs, Returns, ReportIsWhole
<1>4. CASE io.os = "libusb"
  <2>1. UsbSend
    BY <1>4 DEF Send
  <2>2. SendAs(io.data, Len(io.data))
    BY <1>1, <2>1, Reassembled DEF UsbSend
  <2> QED
    BY <1>3, <1>4, <2>2
<1>5. CASE io.os = "mac"
  <2>1. MacSend
    BY <1>5 DEF Send
  <2>2. SendAs(io.data, Len(io.data))
    BY <1>1, <2>1, Reassembled DEF MacSend
  <2> QED
    BY <1>3, <1>5, <2>2
<1>6. CASE io.os = "linux"
  <2>1. LinuxSend
    BY <1>6 DEF Send
  <2> QED
    BY <1>3, <1>6, <2>1 DEF LinuxSend
<1>7. CASE io.os = "netbsd"
  <2>1. NetbsdSend
    BY <1>7 DEF Send
  <2>2. CASE Fail
    BY <2>2, FailWhole
  <2>3. ASSUME NEW n \in 0 .. UcrSize, NEW rest \in [1 .. UcrSize -> {0, 1}],
               SendAs(Upto(n + 1, io.data \o rest), Len(io.data))
        PROVE  ReportIsWhole' /\ pending' = FALSE
    <3>1. rest \in Seq(Byte) /\ n + 1 \in Nat
      BY ReportsAssumption DEF Byte
    <3>2. Agree(Upto(n + 1, io.data \o rest), io.data)
      BY <1>2, <3>1, CutAgrees
    <3>3. /\ got' = Upto(n + 1, io.data \o rest) /\ returned' = Len(io.data)
          /\ pending' = FALSE /\ io' = io /\ buffer' = buffer
      BY <2>3 DEF SendAs, Returns
    <3>4. Agree(got, io.data)'
      BY <3>2, <3>3 DEF Agree, Upto
    <3> QED
      BY <1>1, <1>2, <1>7, <3>3, <3>4 DEF ReportIsWhole
  <2> QED
    BY <2>1, <2>2, <2>3 DEF NetbsdSend
<1>8. CASE io.os = "windows"
  <2> DEFINE n == IF Len(io.data) < Longest THEN Longest - Len(io.data) ELSE 0
  <2>1. n \in 0 .. Longest /\ n \in Nat
    BY <1>2 DEF Waiting
  <2>2. WindowsSend
    BY <1>8 DEF Send
  <2> HIDE DEF n
  <2>3. Longest' = Longest
    BY DEF Longest
  <2>4. CASE io.function = "hid_write"
    <3>1. SendAs(io.data \o Zeros(n), Len(io.data \o Zeros(n)))
      BY <2>2, <2>4 DEF WindowsSend, n
    <3>2. /\ io' = io /\ pending' = FALSE /\ buffer' = buffer /\ got' = io.data \o Zeros(n)
          /\ returned' = Len(got')
      BY <3>1 DEF SendAs, Returns
    <3>3. IsPadded(got, io.data)'
      BY <2>1, <2>3, <3>2 DEF IsPadded, Zeros
    <3> QED
      BY <1>1, <1>2, <1>8, <2>4, <3>2, <3>3 DEF ReportIsWhole
  <2>5. CASE io.function # "hid_write"
    <3>1. SendAs(Upto(Longest, io.data \o Zeros(n)), Len(io.data))
      BY <2>2, <2>5 DEF WindowsSend, n
    <3>2. /\ io' = io /\ pending' = FALSE /\ buffer' = buffer
          /\ got' = Upto(Longest, io.data \o Zeros(n)) /\ returned' = Len(io.data)
      BY <3>1 DEF SendAs, Returns
    <3>3. Upto(Longest, io.data \o Zeros(n)) = Upto(Longest, io.data) \o Zeros(n)
      <4>1. Longest \in Nat
        BY DEF Waiting
      <4> QED
        BY <1>2, <4>1, CutPadded DEF n
    <3>4. IsPadded(got, Upto(Longest, io.data))'
      BY <2>1, <2>3, <3>2, <3>3 DEF IsPadded, Zeros, Upto
    <3> QED
      BY <1>1, <1>2, <1>8, <2>5, <3>2, <3>4 DEF ReportIsWhole
  <2> QED
    BY <2>4, <2>5
<1> QED
  BY <1>4, <1>5, <1>6, <1>7, <1>8 DEF Waiting

(* What should be in the buffer, and what a call may return then. *)
Report == CASE io.function = "hid_read" -> OnWire(io.report)
           [] io.function # "hid_read" /\ io.os = "netbsd" -> Upto(UcrSize + 1, io.report)
           [] OTHER -> io.report

Moved == Upto(Len(io.data), Report)

Counted(n) == \/ n = Len(Moved)
              \/ io.os = "windows" /\ io.function = "hid_read" /\ n \in Len(Moved) .. Len(io.data)
              \/ io.os = "netbsd" /\ io.function = "get_report" /\ n \in Len(Moved) .. Len(io.data)

LEMMA Delivered ==
  ASSUME Waiting, io.function \notin Sends, Report \in Seq(Byte),
         NEW offset \in Nat, NEW bytes \in Seq(Byte), NEW n, Deliver(offset, bytes, n),
         offset + Len(bytes) <= Len(io.data), Len(Moved) <= offset + Len(bytes),
         \A i \in 1 .. Len(Moved) :
           IF i <= offset THEN io.data[i] = Report[i] ELSE bytes[i - offset] = Report[i],
         Counted(n)
  PROVE  ReportIsWhole' /\ pending' = FALSE
<1>1. io.data \in Seq(Byte) /\ Len(io.data) \in Nat /\ Len(bytes) \in Nat
  BY DEF Waiting
<1>2. /\ io' = io /\ pending' = FALSE /\ returned' = n /\ buffer' = Onto(io.data, offset, bytes)
  BY DEF Deliver, Returns
<1>3. /\ buffer' \in Seq(Byte) /\ Len(buffer') = Len(io.data)
      /\ \A i \in 1 .. offset : buffer'[i] = io.data[i]
      /\ \A i \in 1 .. Len(bytes) : buffer'[offset + i] = bytes[i]
  BY <1>1, <1>2, OntoIs
<1>4. /\ Moved \in Seq(Byte) /\ Len(Moved) \in Nat /\ Len(Moved) <= Len(io.data)
      /\ \A i \in 1 .. Len(Moved) : Moved[i] = Report[i]
  <2>1. /\ Moved \in Seq(Byte)
        /\ Len(Moved) = IF Len(io.data) < Len(Report) THEN Len(io.data) ELSE Len(Report)
        /\ \A i \in 1 .. Len(Moved) : Moved[i] = Report[i]
    BY <1>1, UptoIs DEF Moved
  <2> QED
    BY <1>1, <2>1
<1>5. ASSUME NEW i \in 1 .. Len(Moved) PROVE buffer'[i] = Moved[i]
  <2>1. CASE i <= offset
    <3>1. i \in 1 .. offset
      BY <1>4, <2>1
    <3> QED
      BY <1>3, <1>4, <2>1, <3>1
  <2>2. CASE ~(i <= offset)
    <3>1. i - offset \in 1 .. Len(bytes) /\ offset + (i - offset) = i
      BY <1>1, <1>4, <2>2
    <3>2. buffer'[i] = bytes[i - offset]
      BY <1>3, <3>1
    <3> QED
      BY <1>4, <2>2, <3>2
  <2> QED
    BY <2>1, <2>2
<1>6. Upto(Len(Moved), buffer') = Moved
  <2>1. /\ Upto(Len(Moved), buffer') \in Seq(Byte)
        /\ Len(Upto(Len(Moved), buffer')) = IF Len(Moved) < Len(buffer') THEN Len(Moved) ELSE Len(buffer')
        /\ \A i \in 1 .. Len(Upto(Len(Moved), buffer')) : Upto(Len(Moved), buffer')[i] = buffer'[i]
    BY <1>3, <1>4, UptoIs
  <2>2. Len(Upto(Len(Moved), buffer')) = Len(Moved)
    BY <1>1, <1>3, <1>4, <2>1
  <2>3. \A i \in 1 .. Len(Moved) : Upto(Len(Moved), buffer')[i] = Moved[i]
    BY <1>5, <2>1, <2>2
  <2> QED
    BY <1>4, <2>1, <2>2, <2>3, SeqEqual
<1>7. UNCHANGED <<Report, Moved>>
  BY <1>2 DEF Report, Moved, OnWire, Upto
<1>8. Counted(returned)'
  BY <1>2, <1>7 DEF Counted
<1>9. Upto(Len(Moved), buffer)' = Moved'
  BY <1>6, <1>7 DEF Upto
<1> QED
  BY <1>2, <1>3, <1>8, <1>9 DEF ReportIsWhole, Counted, Moved, Report

(* A report without its id, if that is 0.                                  *)
Bare(report) == IF report[1] = 0 THEN 1 ELSE 0

LEMMA OnWireIs ==
  ASSUME NEW report \in Seq(Byte), Len(report) >= 1
  PROVE  /\ OnWire(report) \in Seq(Byte) /\ Len(OnWire(report)) = Len(report) - Bare(report)
         /\ \A i \in 1 .. Len(OnWire(report)) : OnWire(report)[i] = report[i + Bare(report)]
<1>1. Head(report) = report[1] /\ Len(report) \in Nat
  OBVIOUS
<1>2. CASE report[1] = 0
  <2>1. OnWire(report) = Tail(report) /\ Bare(report) = 1
    BY <1>1, <1>2 DEF OnWire, Bare
  <2>2. /\ Tail(report) \in Seq(Byte) /\ Len(Tail(report)) = Len(report) - 1
        /\ \A i \in 1 .. Len(report) - 1 : Tail(report)[i] = report[i + 1]
    BY <1>1
  <2> QED
    BY <2>1, <2>2
<1>3. CASE report[1] # 0
  <2>1. OnWire(report) = report /\ Bare(report) = 0
    BY <1>1, <1>3 DEF OnWire, Bare
  <2>2. \A i \in 1 .. Len(report) : i + 0 = i
    BY <1>1
  <2> QED
    BY <1>1, <2>1, <2>2
<1> QED
  BY <1>2, <1>3

LEMMA MovedIs ==
  ASSUME Waiting, Report \in Seq(Byte)
  PROVE  /\ Len(io.data) \in Nat /\ Len(Report) \in Nat /\ Len(Moved) \in Nat
         /\ Len(Moved) = IF Len(io.data) < Len(Report) THEN Len(io.data) ELSE Len(Report)
<1>1. io.data \in Seq(Byte) /\ Len(io.data) \in Nat /\ Len(Report) \in Nat
  BY DEF Waiting
<1>2. /\ Moved \in Seq(Byte)
      /\ Len(Moved) = IF Len(io.data) < Len(Report) THEN Len(io.data) ELSE Len(Report)
  BY <1>1, UptoIs DEF Moved
<1> QED
  BY <1>1, <1>2

(* What hid_get_feature_report and hid_get_input_report deliver.           *)
LEMMA UsbGetWhole ==
  ASSUME Waiting, io.function = "get_report", io.data # <<>>, io.os \in {"libusb", "mac"}, UsbGet
  PROVE  ReportIsWhole' /\ pending' = FALSE
<1> DEFINE wire == OnWire(io.report)
           bytes == Upto(Len(io.data) - Skipped, wire)
<1>1. /\ io.report \in Seq(Byte) /\ Len(io.report) >= 1 /\ Len(io.report) \in Nat
      /\ io.report[1] = io.data[1] /\ io.function \notin Sends /\ Len(io.data) \in Nat \ {0}
  BY SkippedIs DEF Waiting, Sends
<1>2. Skipped = Bare(io.report) /\ Skipped \in {0, 1} /\ (Skipped = 1 => io.data[1] = 0)
  BY <1>1, SkippedIs DEF Bare
<1>3. /\ wire \in Seq(Byte) /\ Len(wire) = Len(io.report) - Skipped
      /\ \A i \in 1 .. Len(wire) : wire[i] = io.report[i + Skipped]
  BY <1>1, <1>2, OnWireIs
<1>4. Deliver(Skipped, bytes, Len(bytes) + Skipped)
  BY DEF UsbGet
<1>5. Report = io.report
  BY <1>1 DEF Report
<1> HIDE DEF wire
<1>6. Len(io.data) - Skipped \in Nat
  BY <1>1, <1>2
<1>7. /\ bytes \in Seq(Byte)
      /\ Len(bytes) = IF Len(io.data) - Skipped < Len(wire) THEN Len(io.data) - Skipped ELSE Len(wire)
      /\ \A i \in 1 .. Len(bytes) : bytes[i] = wire[i]
  BY <1>3, <1>6, UptoIs
<1> HIDE DEF bytes
<1>8. Len(Moved) = IF Len(io.data) < Len(io.report) THEN Len(io.data) ELSE Len(io.report)
  BY <1>1, <1>5, MovedIs
<1>9. /\ Skipped \in Nat /\ Len(Moved) = Len(bytes) + Skipped
      /\ Skipped + Len(bytes) <= Len(io.data) /\ Len(bytes) <= Len(wire) /\ Len(bytes) \in Nat
  <2>1. Len(wire) \in Nat /\ Len(io.data) - Skipped \in Nat
    BY <1>3, <1>6
  <2>2. CASE Skipped = 0
    BY <1>1, <1>3, <1>7, <1>8, <2>1, <2>2
  <2>3. CASE Skipped = 1
    BY <1>1, <1>3, <1>7, <1>8, <2>1, <2>3
  <2> QED
    BY <1>2, <2>2, <2>3
<1>10. ASSUME NEW i \in 1 .. Len(Moved)
       PROVE  IF i <= Skipped THEN io.data[i] = Report[i] ELSE bytes[i - Skipped] = Report[i]
  <2>1. CASE i <= Skipped
    <3>1. i = 1
      BY <1>2, <1>9, <2>1
    <3> QED
      BY <1>1, <1>5, <2>1, <3>1
  <2>2. CASE ~(i <= Skipped)
    <3>1. i - Skipped \in 1 .. Len(bytes) /\ i - Skipped \in 1 .. Len(wire) /\ (i - Skipped) + Skipped = i
      BY <1>2, <1>3, <1>9, <2>2
    <3> QED
      BY <1>3, <1>5, <1>7, <2>2, <3>1
  <2> QED
    BY <2>1, <2>2
<1>11. Counted(Len(bytes) + Skipped)
  BY <1>9 DEF Counted
<1>12. Len(Moved) <= Skipped + Len(bytes)
  BY <1>2, <1>9
<1> QED
  BY <1>1, <1>4, <1>5, <1>7, <1>9, <1>10, <1>11, <1>12, Delivered

LEMMA LinuxGetWhole ==
  ASSUME Waiting, io.function = "get_report", io.data # <<>>, io.os = "linux", LinuxGet
  PROVE  ReportIsWhole' /\ pending' = FALSE
<1>1. io.report \in Seq(Byte) /\ Len(io.data) \in Nat /\ io.function \notin Sends
  BY SkippedIs DEF Waiting, Sends
<1>2. Report = io.report
  BY DEF Report
<1>3. Deliver(0, Moved, Len(Moved))
  BY <1>2 DEF LinuxGet, Moved
<1>4. /\ Moved \in Seq(Byte) /\ Len(Moved) \in Nat /\ Len(Moved) <= Len(io.data)
      /\ \A i \in 1 .. Len(Moved) : Moved[i] = Report[i]
  <2>1. /\ Moved \in Seq(Byte) /\ \A i \in 1 .. Len(Moved) : Moved[i] = Report[i]
    BY <1>1, <1>2, UptoIs DEF Moved
  <2> QED
    BY <1>1, <1>2, <2>1, MovedIs
<1>5. \A i \in 1 .. Len(Moved) :
        IF i <= 0 THEN io.data[i] = Report[i] ELSE Moved[i - 0] = Report[i]
  BY <1>4
<1>6. 0 + Len(Moved) <= Len(io.data) /\ Len(Moved) <= 0 + Len(Moved)
  BY <1>1, <1>4
<1> QED
  BY <1>1, <1>2, <1>3, <1>4, <1>5, <1>6, Delivered DEF Counted

LEMMA NetbsdGetWhole ==
  ASSUME Waiting, io.function = "get_report", io.data # <<>>, io.os = "netbsd", NetbsdGet
  PROVE  ReportIsWhole' /\ pending' = FALSE
<1>0. PICK rest \in [1 .. UcrSize -> {0, 1}] :
        LET bytes == Upto(Len(io.data) - 1, Upto(UcrSize, Tail(io.report) \o rest))
        IN  Deliver(1, bytes, Len(bytes) + 1)
  BY DEF NetbsdGet
<1> DEFINE tail == Tail(io.report)
           filled == tail \o rest
           ucr_data == Upto(UcrSize, filled)
           bytes == Upto(Len(io.data) - 1, ucr_data)
<1>1. /\ io.report \in Seq(Byte) /\ Len(io.report) >= 1 /\ Len(io.report) \in Nat
      /\ io.report[1] = io.data[1] /\ io.function \notin Sends /\ Len(io.data) \in Nat \ {0}
  BY SkippedIs DEF Waiting, Sends
<1>2. UcrSize \in Nat /\ Len(io.data) - 1 \in Nat /\ UcrSize + 1 \in Nat
  BY <1>1, ReportsAssumption
<1>3. rest \in Seq(Byte) /\ Len(rest) = UcrSize
  BY <1>2 DEF Byte
<1>4. /\ tail \in Seq(Byte) /\ Len(tail) = Len(io.report) - 1
      /\ \A i \in 1 .. Len(tail) : tail[i] = io.report[i + 1]
  BY <1>1
<1> HIDE DEF tail
<1>5. /\ filled \in Seq(Byte) /\ Len(filled) = Len(tail) + Len(rest)
      /\ \A i \in 1 .. Len(tail) : filled[i] = tail[i]
  BY <1>3, <1>4, JoinedIs, ZenonT(60)
<1> HIDE DEF filled
<1>6. /\ ucr_data \in Seq(Byte) /\ Len(ucr_data) = UcrSize
      /\ \A i \in 1 .. UcrSize : ucr_data[i] = filled[i]
  <2>1. /\ ucr_data \in Seq(Byte)
        /\ Len(ucr_data) = IF UcrSize < Len(filled) THEN UcrSize ELSE Len(filled)
        /\ \A i \in 1 .. Len(ucr_data) : ucr_data[i] = filled[i]
    BY <1>2, <1>5, UptoIs
  <2>2. Len(ucr_data) = UcrSize
    BY <1>1, <1>2, <1>3, <1>4, <1>5, <2>1
  <2> QED
    BY <2>1, <2>2
<1>7. Deliver(1, bytes, Len(bytes) + 1)
  BY <1>0 DEF tail, filled
<1> HIDE DEF ucr_data
<1>8. /\ bytes \in Seq(Byte)
      /\ Len(bytes) = IF Len(io.data) - 1 < UcrSize THEN Len(io.data) - 1 ELSE UcrSize
      /\ \A i \in 1 .. Len(bytes) : bytes[i] = ucr_data[i]
  BY <1>2, <1>6, UptoIs
<1> HIDE DEF bytes
<1>9. /\ Report \in Seq(Byte)
      /\ Len(Report) = IF UcrSize + 1 < Len(io.report) THEN UcrSize + 1 ELSE Len(io.report)
      /\ \A i \in 1 .. Len(Report) : Report[i] = io.report[i]
  <2>1. Report = Upto(UcrSize + 1, io.report)
    BY DEF Report
  <2> QED
    BY <1>1, <1>2, <2>1, UptoIs
<1>10. Len(Moved) \in Nat /\ Len(Moved) = IF Len(io.data) < Len(Report) THEN Len(io.data) ELSE Len(Report)
  BY <1>9, MovedIs
<1>11. /\ Len(bytes) \in Nat /\ 1 + Len(bytes) <= Len(io.data) /\ Len(Moved) <= 1 + Len(bytes)
       /\ Len(bytes) <= UcrSize /\ Len(Moved) <= Len(Report) /\ Len(Report) <= Len(io.report)
  BY <1>1, <1>2, <1>8, <1>9, <1>10, SMTT(40)
<1>12. ASSUME NEW i \in 1 .. Len(Moved)
       PROVE  IF i <= 1 THEN io.data[i] = Report[i] ELSE bytes[i - 1] = Report[i]
  <2>1. i \in 1 .. Len(Report) /\ i \in Nat
    BY <1>9, <1>10
  <2>2. CASE i <= 1
    <3>1. i = 1
      BY <2>1, <2>2
    <3> QED
      BY <1>1, <1>9, <2>1, <2>2, <3>1
  <2>3. CASE ~(i <= 1)
    <3>1. /\ i - 1 \in 1 .. Len(bytes) /\ i - 1 \in 1 .. UcrSize /\ i - 1 \in 1 .. Len(tail)
          /\ (i - 1) + 1 = i
      BY <1>1, <1>2, <1>4, <1>10, <1>11, <2>3
    <3>2. bytes[i - 1] = ucr_data[i - 1]
      BY <1>8, <3>1
    <3>3. ucr_data[i - 1] = filled[i - 1]
      BY <1>6, <3>1
    <3>4. filled[i - 1] = tail[i - 1]
      BY <1>5, <3>1
    <3>5. tail[i - 1] = io.report[i]
      BY <1>4, <3>1
    <3>6. Report[i] = io.report[i]
      BY <1>9, <2>1
    <3> QED
      BY <2>3, <3>2, <3>3, <3>4, <3>5, <3>6
  <2> QED
    BY <2>2, <2>3
<1>13. Counted(Len(bytes) + 1)
  BY <1>1, <1>10, <1>11 DEF Counted
<1> QED
  BY <1>1, <1>7, <1>8, <1>9, <1>11, <1>12, <1>13, Delivered

LEMMA WindowsGetWhole ==
  ASSUME Waiting, io.function = "get_report", io.data # <<>>, io.os = "windows", WindowsGet
  PROVE  ReportIsWhole' /\ pending' = FALSE
<1>1. /\ io.report \in Seq(Byte) /\ Len(io.report) >= 1 /\ Len(io.report) \in Nat
      /\ Len(io.report) <= Longest /\ Longest \in Nat
      /\ io.report[1] = io.data[1] /\ io.function \notin Sends /\ Len(io.data) \in Nat \ {0}
  BY SkippedIs DEF Waiting, Sends
<1>2. CASE Len(io.data) < Longest
  <2>1. Fail
    BY <1>2 DEF WindowsGet
  <2> QED
    BY <2>1, FailWhole
<1>3. CASE ~(Len(io.data) < Longest)
  <2> DEFINE n == Len(OnWire(io.report)) + Skipped
  <2>1. Deliver(0, io.report, n)
    BY <1>3 DEF WindowsGet
  <2>2. Skipped = Bare(io.report) /\ Skipped \in {0, 1}
    BY <1>1, SkippedIs DEF Bare
  <2>3. n = Len(io.report)
    <3>1. Len(OnWire(io.report)) = Len(io.report) - Bare(io.report)
      BY <1>1, OnWireIs
    <3> QED
      BY <1>1, <2>2, <3>1
  <2>4. Report = io.report
    BY DEF Report
  <2>5. Len(io.report) <= Len(io.data)
    BY <1>1, <1>3
  <2>6. Len(Moved) = Len(io.report)
    BY <1>1, <2>4, <2>5, MovedIs
  <2>7. \A i \in 1 .. Len(Moved) :
          IF i <= 0 THEN io.data[i] = Report[i] ELSE io.report[i - 0] = Report[i]
    BY <1>1, <2>4, <2>6
  <2>8. 0 + Len(io.report) <= Len(io.data) /\ Len(Moved) <= 0 + Len(io.report) /\ Counted(n)
    BY <1>1, <2>3, <2>5, <2>6 DEF Counted
  <2> HIDE DEF n
  <2> QED
    BY <1>1, <2>1, <2>4, <2>7, <2>8, Delivered
<1> QED
  BY <1>2, <1>3

(* What hid_read delivers.                                                 *)
LEMMA GiveDataWhole ==
  ASSUME Waiting, io.function = "hid_read", io.os # "windows", GiveData
  PROVE  ReportIsWhole' /\ pending' = FALSE
<1>1. /\ io.data \in Seq(Byte) /\ Len(io.data) \in Nat /\ io.function \notin Sends
      /\ io.report \in Seq(Byte) /\ Len(io.report) >= 1
  BY DEF Waiting, Sends
<1>2. Report = OnWire(io.report) /\ Report \in Seq(Byte)
  BY <1>1, OnWireIs DEF Report
<1>3. Deliver(0, Moved, Len(Moved))
  BY <1>2 DEF GiveData, Moved
<1>4. /\ Moved \in Seq(Byte) /\ Len(Moved) \in Nat /\ Len(Moved) <= Len(io.data)
      /\ \A i \in 1 .. Len(Moved) : Moved[i] = Report[i]
  <2>1. /\ Moved \in Seq(Byte) /\ \A i \in 1 .. Len(Moved) : Moved[i] = Report[i]
    BY <1>1, <1>2, UptoIs DEF Moved
  <2> QED
    BY <1>1, <1>2, <2>1, MovedIs
<1>5. \A i \in 1 .. Len(Moved) :
        IF i <= 0 THEN io.data[i] = Report[i] ELSE Moved[i - 0] = Report[i]
  BY <1>4
<1>6. 0 + Len(Moved) <= Len(io.data) /\ Len(Moved) <= 0 + Len(Moved)
  BY <1>1, <1>4
<1> QED
  BY <1>1, <1>2, <1>3, <1>4, <1>5, <1>6, Delivered DEF Counted

LEMMA WindowsDataWhole ==
  ASSUME Waiting, io.function = "hid_read", io.os = "windows", WindowsData
  PROVE  ReportIsWhole' /\ pending' = FALSE
<1> DEFINE read_buf == io.report \o Zeros(Longest - Len(io.report))
           data == OnWire(read_buf)
           bytes == Upto(Len(io.data), data)
<1>1. /\ io.data \in Seq(Byte) /\ Len(io.data) \in Nat /\ io.function \notin Sends
      /\ io.report \in Seq(Byte) /\ Len(io.report) >= 1 /\ Len(io.report) \in Nat
      /\ Len(io.report) <= Longest /\ Longest \in Nat
  BY DEF Waiting, Sends
<1>2. Deliver(0, bytes, Len(bytes))
  BY DEF WindowsData, OnWire
<1>3. Longest - Len(io.report) \in Nat
  BY <1>1
<1>4. /\ Zeros(Longest - Len(io.report)) \in Seq(Byte)
      /\ Len(Zeros(Longest - Len(io.report))) = Longest - Len(io.report)
  BY <1>3, ZerosIs
<1>5. /\ read_buf \in Seq(Byte)
      /\ Len(read_buf) = Len(io.report) + Len(Zeros(Longest - Len(io.report)))
      /\ \A i \in 1 .. Len(io.report) : read_buf[i] = io.report[i]
  BY <1>1, <1>4, JoinedIs, ZenonT(60)
<1> HIDE DEF read_buf
<1>6. Len(read_buf) = Longest /\ Len(read_buf) >= 1 /\ Bare(read_buf) = Bare(io.report)
  <2>1. 1 \in 1 .. Len(io.report)
    BY <1>1
  <2>2. read_buf[1] = io.report[1]
    BY <1>5, <2>1
  <2>3. Len(read_buf) = Longest /\ Longest >= 1
    <3>1. Len(read_buf) = Len(io.report) + (Longest - Len(io.report))
      BY ONLY <1>4, <1>5
    <3> QED
      BY <1>1, <3>1
  <2> QED
    BY <2>2, <2>3 DEF Bare
<1>7. /\ data \in Seq(Byte) /\ Len(data) = Longest - Bare(io.report)
      /\ \A i \in 1 .. Len(data) : data[i] = read_buf[i + Bare(io.report)]
  BY <1>5, <1>6, OnWireIs, ZenonT(60)
<1>8. /\ Report \in Seq(Byte) /\ Len(Report) = Len(io.report) - Bare(io.report)
      /\ \A i \in 1 .. Len(Report) : Report[i] = io.report[i + Bare(io.report)]
  <2>1. Report = OnWire(io.report)
    BY DEF Report
  <2> QED
    BY <1>1, <2>1, OnWireIs
<1> HIDE DEF data
<1>9. /\ bytes \in Seq(Byte)
      /\ Len(bytes) = IF Len(io.data) < Len(data) THEN Len(io.data) ELSE Len(data)
      /\ \A i \in 1 .. Len(bytes) : bytes[i] = data[i]
  BY <1>1, <1>7, UptoIs
<1> HIDE DEF bytes
<1>10. Len(Moved) \in Nat /\ Len(Moved) = IF Len(io.data) < Len(Report) THEN Len(io.data) ELSE Len(Report)
  BY <1>8, MovedIs
<1>11. Bare(io.report) \in {0, 1}
  BY DEF Bare
<1>12. /\ Len(bytes) \in Nat /\ 0 + Len(bytes) <= Len(io.data) /\ Len(Moved) <= 0 + Len(bytes)
       /\ Len(bytes) <= Len(data) /\ Len(Moved) <= Len(Report) /\ Len(Moved) <= Len(bytes)
  BY <1>1, <1>7, <1>8, <1>9, <1>10, <1>11
<1>13. ASSUME NEW i \in 1 .. Len(Moved)
       PROVE  IF i <= 0 THEN io.data[i] = Report[i] ELSE bytes[i - 0] = Report[i]
  <2>1. i \in 1 .. Len(bytes) /\ i \in 1 .. Len(data) /\ i \in 1 .. Len(Report)
    BY <1>7, <1>8, <1>10, <1>11, <1>12
  <2>2. i + Bare(io.report) \in 1 .. Len(io.report)
    BY <1>1, <1>8, <1>11, <2>1
  <2>3. bytes[i] = Report[i]
    BY <1>5, <1>7, <1>8, <1>9, <2>1, <2>2
  <2>4. ~(i <= 0) /\ i - 0 = i
    OBVIOUS
  <2> QED
    BY <2>3, <2>4
<1>14. Counted(Len(bytes))
  BY <1>1, <1>10, <1>12 DEF Counted
<1> QED
  BY <1>1, <1>2, <1>8, <1>9, <1>12, <1>13, <1>14, Delivered

LEMMA TransferWhole ==
  ASSUME Waiting, Transfer
  PROVE  ReportIsWhole' /\ pending' = FALSE
<1>1. CASE Send
  BY <1>1, SendWhole
<1>2. CASE GetReport
  <2>1. io.function = "get_report" /\ io.data # <<>>
    BY <1>2 DEF GetReport
  <2>2. CASE io.os \in {"libusb", "mac"}
    BY <1>2, <2>1, <2>2, UsbGetWhole DEF GetReport
  <2>3. CASE io.os = "linux"
    BY <1>2, <2>1, <2>3, LinuxGetWhole DEF GetReport
  <2>4. CASE io.os = "netbsd"
    BY <1>2, <2>1, <2>4, NetbsdGetWhole DEF GetReport
  <2>5. CASE io.os = "windows"
    BY <1>2, <2>1, <2>5, WindowsGetWhole DEF GetReport
  <2> QED
    BY <2>2, <2>3, <2>4, <2>5 DEF Waiting
<1>3. CASE HidRead
  <2>1. CASE io.os = "windows"
    BY <1>3, <2>1, WindowsDataWhole DEF HidRead
  <2>2. CASE io.os # "windows"
    BY <1>3, <2>2, GiveDataWhole DEF HidRead
  <2> QED
    BY <2>1, <2>2
<1>4. CASE Fail
  BY <1>4, FailWhole
<1> QED
  BY <1>1, <1>2, <1>3, <1>4 DEF Transfer

(* A transfer is asked for, or has been made in full.                      *)
ReportsInv == /\ pending \in BOOLEAN
              /\ pending => Waiting
              /\ ~pending => ReportIsWhole

LEMMA ReportsStep ==
  ASSUME ReportsInv, [Next]_vars
  PROVE  ReportsInv'
<1>1. CASE part = "report" /\ Transfer
  <2>1. Waiting
    BY <1>1 DEF ReportsInv, Transfer
  <2>2. ReportIsWhole' /\ pending' = FALSE
    BY <1>1, <2>1, TransferWhole
  <2> QED
    BY <2>2 DEF ReportsInv
<1>2. CASE UNCHANGED reportVars
  <2>1. UNCHANGED <<Waiting, ReportIsWhole, pending>>
    BY <1>2 DEF reportVars, Waiting, ReportIsWhole, Longest, IsPadded, Agree, OnWire, Upto, Zeros
  <2> QED
    BY <2>1 DEF ReportsInv
<1> QED
  BY <1>1, <1>2 DEF Next, vars

(* What hid_write, hid_send_feature_report, hid_read,                      *)
(* hid_get_feature_report and hid_get_input_report have moved when they    *)
(* succeed is one report, with its id where the id belongs.  For sending   *)
(* this is exact on libusb, macOS and Linux; of data that are longer or    *)
(* shorter than the report Windows sends what hidapi cuts and fills up,    *)
(* and NetBSD as much as agrees with them.  What is read is the beginning  *)
(* of the report, as much as the buffer takes (on NetBSD, and ucr_data),   *)
(* with the count of it; Windows counts zeros that hid_read adds, and of   *)
(* the count on NetBSD only bounds are promised.                           *)
THEOREM ReportIsWholeAlways == Spec => []ReportIsWhole
<1>1. Init => ReportsInv
  <2> SUFFICES ASSUME Init PROVE ReportsInv
    OBVIOUS
  <2>1. CASE part = "report"
    BY <2>1, InitReport DEF Init, ReportsInv
  <2>2. CASE part # "report"
    BY <2>2, InitNone DEF Init, ReportsInv
  <2> QED
    BY <2>1, <2>2
<1>2. ReportsInv /\ [Next]_vars => ReportsInv'
  BY ReportsStep
<1>3. ReportsInv => ReportIsWhole
  BY DEF ReportsInv, Waiting, ReportIsWhole
<1> QED
  BY <1>1, <1>2, <1>3, PTL DEF Spec
=============================================================================
