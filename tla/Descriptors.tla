------------------------------ MODULE Descriptors ------------------------------
(***************************************************************************)
(* The descriptors the program looks into (hci.rs, and engine.rs where it   *)
(* uses them): what hide_uas takes out of a configuration descriptor, what  *)
(* the control endpoint remembers of it between reads (hidden_config), and  *)
(* what is read from the descriptor passed with ENDPOINT_CREATE.            *)
(*                                                                          *)
(* A configuration is a sequence of descriptors behind a header; a read     *)
(* returns its first bytes, and may end inside a descriptor.  The device,   *)
(* its configuration and the host that reads it are external: the host may  *)
(* read any length, in any order.                                           *)
(***************************************************************************)
EXTENDS Integers, Sequences, SequencesExt

CONSTANTS
  Shapes,       \* the descriptors configurations are made of
  MaxShapes,    \* bound: descriptors in a configuration behind its header
  Leads,        \* bytes between the header and the endpoint in ENDPOINT_CREATE
  Intervals,    \* values of bInterval
  None

(* macOS passes one endpoint in a configuration descriptor that fits the clamp. *)
DescriptorLimit == 512
HeaderLength    == 9
EndpointLength  == 7

ASSUME DescriptorsAssumption ==
  /\ MaxShapes \in Nat
  /\ Leads \subseteq 0..(DescriptorLimit - HeaderLength - EndpointLength)
  /\ Intervals \subseteq 0..255

(* A descriptor: its type and length and, of an interface, its number and   *)
(* whether this alternate setting is USB Attached SCSI.                     *)
Interface(n, uas) == [type |-> "interface", len |-> 9, number |-> n, uas |-> uas]
Association       == [type |-> "association", len |-> 8]
Endpoint          == [type |-> "endpoint", len |-> EndpointLength]

VARIABLES
  config,       \* the device's configuration
  hidden,       \* Endpoint.hidden_config of the control endpoint
  asked,        \* the length of the last read
  wasFull,      \* an earlier read was a full one (history)
  told,         \* what the host got from the last read
  passed        \* the endpoint descriptor of an ENDPOINT_CREATE

vars == <<config, hidden, asked, wasFull, told, passed>>

-------------------------------------------------------------------------------
(* The bytes of a read: how many they are, wTotalLength, whole descriptors. *)

Bytes(parts) == HeaderLength + FoldFunction(LAMBDA d, n : d.len + n, 0, parts)

Whole(parts) == [len |-> Bytes(parts), total |-> Bytes(parts), parts |-> parts]

Least(a, b) == IF a < b THEN a ELSE b

Fits(parts, length, n) == n <= Len(parts) /\ Bytes(SubSeq(parts, 1, n)) <= length

First(data, length) ==
  LET n == CHOOSE i \in 0..Len(data.parts) :
             /\ i = 0 \/ Fits(data.parts, length, i)
             /\ ~Fits(data.parts, length, i + 1)
  IN [data EXCEPT !.len = Least(@, length), !.parts = SubSeq(@, 1, n)]

-------------------------------------------------------------------------------
(* hide_uas. *)

(* The loop: the interface descriptor that begins the group of the i-th one, *)
(* 0 if it is in none.  An interface begins a group, an association ends it. *)
GroupPastAssociation(parts) ==
  LET group[i \in 0..Len(parts)] ==
        CASE i = 0 -> 0
          [] i > 0 /\ parts[i].type = "interface" -> i
          [] OTHER -> group[i - 1]
  IN group
Group(parts) ==
  LET group[i \in 0..Len(parts)] ==
        CASE i = 0 -> 0
          [] i > 0 /\ parts[i].type = "interface" -> i
          [] i > 0 /\ parts[i].type = "association" -> 0
          [] OTHER -> group[i - 1]
  IN group

IsUas(d) == d.type = "interface" /\ d.uas

HasFallback(parts, number) ==
  \E j \in DOMAIN parts :
    parts[j].type = "interface" /\ parts[j].number = number /\ ~IsUas(parts[j])

HiddenParts(parts) ==
  LET group == Group(parts) IN
  {i \in DOMAIN parts :
     /\ group[i] # 0
     /\ IsUas(parts[group[i]])
     /\ HasFallback(parts, parts[group[i]].number)}

Without(parts, gone) ==
  FoldLeftDomain(LAMBDA out, i : IF i \in gone THEN out ELSE Append(out, parts[i]), <<>>, parts)

hide_uasKeepsTotal(data) ==
  LET gone == HiddenParts(data.parts) IN
  IF data.len < HeaderLength \/ data.len # Bytes(data.parts) \/ gone = {}
  THEN data ELSE [Whole(Without(data.parts, gone)) EXCEPT !.total = data.total]
(* Data that ends inside a descriptor is left alone. *)
hide_uas(data) ==
  LET gone == HiddenParts(data.parts) IN
  IF data.len < HeaderLength \/ data.len # Bytes(data.parts) \/ gone = {}
  THEN data ELSE Whole(Without(data.parts, gone))

-------------------------------------------------------------------------------
(* EndpointInfo. *)

CONTROL == [kind |-> "control", b_interval |-> 0]
Kinds   == {"control", "isochronous", "bulk", "interrupt"}
Speeds  == {"low", "high"}      \* below high speed; high speed and above

(* parse: an endpoint descriptor, or the first one in a configuration        *)
(* descriptor, of which `len` bytes were read.                               *)
parse(desc, len) ==
  IF desc.form = "config" /\ HeaderLength + desc.lead + EndpointLength > len
  THEN None ELSE [kind |-> desc.kind, b_interval |-> desc.b_interval]

(* A configuration descriptor is read as far as its own length goes, and no  *)
(* further than the limit; what cannot be parsed is a control endpoint.      *)
endpoint_descriptor(desc) ==
  LET len  == IF desc.form = "config"
              THEN Least(HeaderLength + desc.lead + EndpointLength, DescriptorLimit)
              ELSE EndpointLength
      info == parse(desc, len)
  IN IF desc.form = "none" \/ info = None THEN CONTROL ELSE info

Greater(a, b) == IF a > b THEN a ELSE b

urb_intervalUnclamped(info, speed) ==
  IF info.kind \in {"bulk", "control"} \/ info.b_interval = 0 THEN 0
  ELSE IF info.kind = "interrupt" /\ speed = "low" THEN info.b_interval
  ELSE 2 ^ (Least(info.b_interval, 16) - 1)
urb_interval(info, speed) ==
  LET b == Greater(info.b_interval, 1) IN
  IF info.kind \in {"bulk", "control"} THEN 0
  ELSE IF info.kind = "interrupt" /\ speed = "low" THEN b
  ELSE 2 ^ (Least(b, 16) - 1)

-------------------------------------------------------------------------------
Passed ==
  [form : {"endpoint", "config"}, lead : Leads, kind : Kinds, b_interval : Intervals]
    \cup [form : {"none"}, lead : {0}, kind : {"control"}, b_interval : {0}]

(* A behaviour is about a configuration that is read, or about an endpoint. *)
Init ==
  /\ \/ config \in BoundedSeq(Shapes, MaxShapes) /\ passed = None
     \/ config = <<>> /\ passed \in Passed
  /\ hidden = None
  /\ asked = 0
  /\ wasFull = FALSE
  /\ told = None

(* Lengths that matter: a few bytes of the header; the end of a descriptor,  *)
(* of the last one and beyond included, and just before it; and the length   *)
(* the host was told last.                                                   *)
Lengths ==
  LET ends == {Bytes(SubSeq(config, 1, n)) : n \in 0..Len(config)} IN
  {4, Bytes(config) + 1} \cup ends \cup {l - 1 : l \in ends}
    \cup (IF told = None THEN {} ELSE {told.total})

(* A GET_DESCRIPTOR(CONFIGURATION) of this length is applied.  What hide_uas *)
(* changes is remembered; what it leaves alone has its total put right.      *)
ReadOnly(length) ==
  /\ passed = None
  /\ LET data == First(Whole(config), length)
         out  == hide_uas(data)
     IN /\ told' = out
        /\ hidden' = IF out # data THEN [original |-> data.total, filtered |-> out.total]
                     ELSE hidden
  /\ asked' = length
  /\ wasFull' = (wasFull \/ asked >= Bytes(config))
  /\ UNCHANGED <<config, passed>>

Read(length) ==
  /\ passed = None
  /\ LET data == First(Whole(config), length)
         out  == hide_uas(data)
         known == hidden # None /\ data.len >= 4 /\ data.total = hidden.original
     IN IF out # data
        THEN /\ hidden' = [original |-> data.total, filtered |-> out.total]
             /\ told' = out
        ELSE /\ told' = IF known THEN [data EXCEPT !.total = hidden.filtered] ELSE data
             /\ UNCHANGED hidden
  /\ asked' = length
  /\ wasFull' = (wasFull \/ asked >= Bytes(config))
  /\ UNCHANGED <<config, passed>>

(* The control endpoint is created again: add_endpoint forgets. *)
Recreate ==
  /\ hidden # None
  /\ hidden' = None
  /\ asked' = 0
  /\ wasFull' = FALSE
  /\ told' = None
  /\ UNCHANGED <<config, passed>>

Next == Recreate \/ \E length \in Lengths : Read(length)

Spec == Init /\ [][Next]_vars

-------------------------------------------------------------------------------
(* Properties. *)

(* What the host should see: no UAS alternate setting where the interface   *)
(* has another, nor anything that follows it up to the next interface or    *)
(* association.                                                             *)
Starts(d) == d.type \in {"interface", "association"}
BelongsToUas(i) ==
  \E j \in 1..i :
    /\ IsUas(config[j])
    /\ \A m \in (j + 1)..i : ~Starts(config[m])
    /\ HasFallback(config, config[j].number)
Filtered == Without(config, {i \in DOMAIN config : BelongsToUas(i)})

(* hide_uas on a full read takes out just the UAS alternates that have a    *)
(* fallback and what belongs to them, and wTotalLength is the new length;   *)
(* no interface of the device disappears.                                   *)
Numbers(parts) == {parts[i].number : i \in {j \in DOMAIN parts : parts[j].type = "interface"}}
FullReadIsFiltered ==
  asked >= Bytes(config) =>
    /\ told = Whole(Filtered)
    /\ Numbers(told.parts) = Numbers(config)

(* Once there was a full read, a read too short for the interfaces reports   *)
(* the length the full read returned: apply puts the total right from        *)
(* hidden_config, and "must still report the length the full read returns,   *)
(* or macOS gives up on the device" (engine.rs:613).  The code does not keep *)
(* to it for every configuration: a read in between that ends at a           *)
(* descriptor is filtered too, and its length replaces the remembered one.   *)
HeaderAgrees ==
  /\ wasFull
  /\ asked \in 4..(HeaderLength + 8)
  => told.total = Bytes(Filtered)

(* It does for a disk whose UAS alternates come last, after any reads.       *)
UasIsLast == IsPrefix(Filtered, config)
HeaderAgreesOnDisks == UasIsLast => HeaderAgrees

(* Such a disk can be read with any lengths in any order: when a read is as  *)
(* long as the total it reports, the host has the whole filtered             *)
(* configuration.                                                            *)
ToldLengthSuffices ==
  /\ UasIsLast
  /\ told # None
  /\ asked >= told.total
  => First(told, told.total) = Whole(Filtered)

(* Linux rejects a periodic URB with interval 0 and drops the connection: an *)
(* endpoint keeps its kind, and a periodic one gets an interval that is not  *)
(* 0 and fits the field, for every bInterval and speed.                      *)
PeriodicHasInterval ==
  passed # None =>
    LET info == endpoint_descriptor(passed) IN
    /\ info.kind = passed.kind
    /\ info.kind \in {"isochronous", "interrupt"} =>
         \A speed \in Speeds : urb_interval(info, speed) \in 1..(2 ^ 15)
===============================================================================
