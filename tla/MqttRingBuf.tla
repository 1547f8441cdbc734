------------------------------ MODULE MqttRingBuf ------------------------------
(***************************************************************************)
(* The byte ring between the MQTT client and TCP (mqtt.c, "Output ring     *)
(* buffer" and "Output message build helpers").  A byte is represented by  *)
(* its serial number in the stream of bytes the client appends, so that    *)
(* loss, repetition and disorder all show as a wrong number.               *)
(***************************************************************************)
EXTENDS Integers

CONSTANTS
  SIZE,       \* MQTT_OUTPUT_RINGBUF_SIZE
  U16,        \* u16_t counts modulo U16 (2^16)
  SEPTET,     \* the length field has 7 bits per byte: base 2^7
  Remaining,  \* remaining lengths of the messages appended
  MaxRoom,    \* altcp_sndbuf returns 0 .. MaxRoom
  MaxBytes    \* bound: bytes appended per connection

ASSUME RingConstants ==
  /\ SIZE \in Nat /\ SIZE > 1
  /\ SEPTET \in Nat /\ SEPTET > 1
  /\ U16 \in Nat /\ SIZE < U16
  /\ Remaining \subseteq 0 .. U16 - 1
  /\ MaxRoom \in Nat /\ MaxBytes \in Nat

VARIABLES
  buf, put, get,   \* struct mqtt_ringbuf_t
  oldest,            \* ghost: serial of the oldest byte not given to TCP
  count,           \* ghost: bytes appended and not given to TCP
  lost,            \* ghost: how content was first overwritten, or "no"
  stream           \* ghost: "garbled" once TCP was given a wrong byte
vars == <<buf, put, get, oldest, count, lost, stream>>

Index == 0 .. SIZE - 1

-----------------------------------------------------------------------------
WrapMutant(i, n) == IF i + n > SIZE THEN i + n - SIZE ELSE i + n  \* mutant: > for >=

(* mqtt_ringbuf_advance_get_idx and the wrap of mqtt_ringbuf_put: i + n    *)
(* for n <= SIZE, with one wrap.                                           *)
Wrap(i, n) == IF i + n >= SIZE THEN i + n - SIZE ELSE i + n

(* How far index i is behind index j, going up. *)
Distance(i, j) == IF j >= i THEN j - i ELSE j - i + SIZE

(* mqtt_ringbuf_len: a negative difference is a large u32_t. *)
Length == Distance(get, put)

Free == SIZE - Length
LinearLengthMutant == Length       \* mutant: reads on behind the buffer

LinearLength == IF Length < SIZE - get THEN Length ELSE SIZE - get

(* Bytes of the remaining length field: one per shift by 7 bits; 16 bits   *)
(* never need more than three.                                             *)
LengthField(r) == IF r < SEPTET THEN 1 ELSE IF r < SEPTET * SEPTET THEN 2 ELSE 3

TotalLen(r) == 1 + r + LengthField(r)     \* what is really appended

Truncate(n) == IF n < U16 THEN n ELSE n - U16

CheckSpaceMutant(r) == r + LengthField(r) <= Free   \* mutant: type byte not counted

(* mqtt_output_check_space: total_len is a u16_t. *)
CheckSpace(r) == Truncate(TotalLen(r)) <= Free

-----------------------------------------------------------------------------
Init ==
  /\ buf = [i \in Index |-> 0] /\ put = 0 /\ get = 0
  /\ oldest = 1 /\ count = 0 /\ lost = "no" /\ stream = "inOrder"

(* mqtt_client_connect wipes the client. *)
Wipe ==
  /\ buf' = [i \in Index |-> 0] /\ put' = 0 /\ get' = 0
  /\ oldest' = 1 /\ count' = 0 /\ lost' = "no" /\ stream' = "inOrder"

(* n bytes go in one by one, wrapping as often as needed; of those that    *)
(* land on the same place the last one stays.                              *)
PutBytes(n) ==
  /\ buf' = [j \in Index |->
               LET d == Distance(put, j)
                   laps == IF n <= SIZE THEN 0 ELSE (n - 1 - d) \div SIZE
               IN IF d < n THEN oldest + count + d + laps * SIZE ELSE buf[j]]
  /\ put' = IF n <= SIZE THEN Wrap(put, n) ELSE (put + n) % SIZE

AppendOne(r) ==
  LET n == TotalLen(r) IN
  /\ CheckSpace(r)
  /\ PutBytes(n)
  /\ count' = count + n
  /\ lost' = CASE lost # "no" \/ count + n < SIZE -> lost
               [] count + n = SIZE -> "exactFill"
               [] OTHER -> "overrun"
  /\ UNCHANGED <<get, oldest, stream>>

AppendMessage ==
  /\ oldest + count <= MaxBytes
  /\ \E r \in Remaining : AppendOne(r)

Least(a, b) == IF a < b THEN a ELSE b

(* altcp_write copies n bytes from the place i on: the right ones when     *)
(* their serials follow `serial'.                                          *)
Right(i, n, serial) ==
  \A k \in 0 .. n - 1 : i + k \in Index /\ buf[i + k] = serial + k

(* One write of `first' bytes and, after the index has wrapped, another of *)
(* `second' bytes.                                                         *)
Take(first, second) ==
  /\ stream' = IF /\ Right(get, first, oldest)
                  /\ Right(Wrap(get, first), second, oldest + first)
               THEN stream ELSE "garbled"
  /\ get' = Wrap(Wrap(get, first), second)
  /\ oldest' = oldest + first + second
  /\ count' = count - (first + second)
  /\ UNCHANGED <<buf, put, lost>>

(* mqtt_output_send with `room' bytes of send buffer.  When the ring wraps *)
(* and there is room for more than the linear part, a second write follows *)
(* the first; `writes' is how many writes TCP would accept.                *)
Send(room, writes) ==
  LET first == Least(room, LinearLength)
      rest == Least(room - first, Length - first)
  IN  /\ room > 0 /\ LinearLength > 0 /\ writes > 0
      /\ Take(first, IF room > LinearLength /\ writes = 2 THEN rest ELSE 0)

OutputSend == \E room \in 0 .. MaxRoom, writes \in 0 .. 2 : Send(room, writes)

Next == Wipe \/ AppendMessage \/ OutputSend

Spec == Init /\ [][Next]_vars

-----------------------------------------------------------------------------
(* Indices stay inside the buffer. *)
TypeOK ==
  /\ buf \in [Index -> Int]
  /\ put \in Index /\ get \in Index
  /\ oldest \in Int /\ count \in Int
  /\ lost \in {"no", "exactFill", "overrun"}
  /\ stream \in {"inOrder", "garbled"}

(* The ring holds, in order, the bytes appended and not yet given to TCP,  *)
(* and mqtt_ringbuf_len counts them.                                       *)
Intact ==
  /\ count \in 0 .. SIZE - 1
  /\ Length = count
  /\ \A k \in 0 .. count - 1 : buf[Wrap(get, k)] = oldest + k
  /\ stream = "inOrder"

(* As long as no message has filled the ring to the last byte or over it,  *)
(* TCP gets every byte, once and in order, whatever it accepts and however *)
(* writes and wraps combine.                                               *)
IntactUntilFull == lost = "no" => Intact

(* While no length exceeds a u16_t, an exact fill is the only way to lose  *)
(* content.                                                                *)
OnlyExactFill ==
  (\A r \in Remaining : TotalLen(r) < U16) => lost # "overrun"

=============================================================================
