---------------------------- MODULE HalProperties ----------------------------
(***************************************************************************)
(* The property model of the CoreAudio driver: the tree of audio objects,  *)
(* the tables find_property_data looks properties up in, and the settable  *)
(* properties with the notifications they cause.                           *)
(*                                                                         *)
(* A property has the size it declares, the items written for it and the   *)
(* size of their type; texts and formats are the item "text" or "format",  *)
(* a conversion is the function it computes, and TranslateUIDToDevice is   *)
(* given the device's own UID.  Gains are integers in the order of the     *)
(* powers 10^(db/20) they stand for, with 0 for silence; a normalised      *)
(* volume v is v * VOL_DB_RANGE^2, so that the square law between it and   *)
(* the decibels stays in the integers.  Rounding is left out.              *)
(*                                                                         *)
(* The audio server (HAL) is external.  After initialize it reads every    *)
(* property, then sets properties from several threads, and reads again    *)
(* what a PropertiesChanged callback names.  A setter stores the value in  *)
(* one atomic step and calls back in a later one.                          *)
(***************************************************************************)
EXTENDS Integers, Sequences, FiniteSets

CONSTANTS
  N_CHANNELS,     \* channels of the device
  VOL_DB_RANGE,   \* the volume range: -VOL_DB_RANGE to 0 dB
  Power10,        \* what stands for 10^(db/20), for each decibel value
  Threads,        \* threads of the audio server that set properties
  MaxSets         \* bound: calls of set_property_data

ASSUME HalAssumption ==
  /\ N_CHANNELS \in Nat
  /\ VOL_DB_RANGE \in Nat \ {0}
  /\ MaxSets \in Nat

-----------------------------------------------------------------------------
(* The object tree *)

PLUGIN_ID == 1
DEVICE_ID == 2
STREAM_ID == 3
Unknown == 0
N_CONTROLS == (N_CHANNELS + 1) * 2
\* The controls and the output stream.
N_DEVICE_OWNED_OBJS == N_CONTROLS + 1
FIRST_CTRL_ID == 4
LAST_CTRL_ID == N_CONTROLS + 3
Elements == 0 .. N_CHANNELS
Objects == PLUGIN_ID .. LAST_CTRL_ID

audio_object_is_control(id) == id \in FIRST_CTRL_ID .. LAST_CTRL_ID

control_is_volume(id) == id % 2 = 1

control_channel_index(id) == (id - FIRST_CTRL_ID) \div 2

Controls == {id \in Objects : audio_object_is_control(id)}

-----------------------------------------------------------------------------
(* Volume conversions *)

VOL_MAX_DB == 0
VOL_MIN_DB == VOL_MAX_DB - VOL_DB_RANGE

Clamp(x, lo, hi) == IF x < lo THEN lo ELSE IF x > hi THEN hi ELSE x
NormMax == VOL_DB_RANGE * VOL_DB_RANGE
Sqrt(x) == CHOOSE r \in 0 .. VOL_DB_RANGE : r * r = x
sq(x) == x * x

\* Values a caller sets, the ones out of range included.
NormInputs == {q * q : q \in 0 .. VOL_DB_RANGE} \cup {-1, NormMax + 1}
DbInputs == VOL_MIN_DB - 1 .. VOL_MAX_DB + 1

\* Of the powers of ten only their sign and their order are used.
ASSUME GainAssumption ==
  /\ Power10 \in [DbInputs -> Nat \ {0}]
  /\ \A a, b \in DbInputs : a < b => Power10[a] < Power10[b]

db_to_gain(db) == Power10[db]

\* Ten times the logarithm of the squared gain: the decibel value whose gain has that
\* square, and minus infinity, which is below any decibel value, for silence.
gain_to_db(gain) ==
  IF gain = 0 THEN VOL_MIN_DB - 2
  ELSE CHOOSE db \in DbInputs : sq(db_to_gain(db)) = sq(gain)

\* The gain 0, the gain 1, and what a setter may store.
Gains == {0} \cup {db_to_gain(db) : db \in DbInputs}

\* The square root of the clamped value, remapped linearly to the dB range.
norm_to_db(v) == VOL_MIN_DB + Sqrt(Clamp(v, 0, NormMax))

norm_to_gain(v) == db_to_gain(norm_to_db(v))

\* The bounds of the clamping are exchanged in the code, which gives the largest
\* value for every input.
db_to_norm(db) ==
  LET low == IF db < VOL_MIN_DB THEN db ELSE VOL_MIN_DB
      clamped == IF low > VOL_MAX_DB THEN low ELSE VOL_MAX_DB
  IN sq(clamped - VOL_MIN_DB)

volume_control_db_val(gain) == Clamp(gain_to_db(gain), VOL_MIN_DB, VOL_MAX_DB)

volume_control_norm_val(gain) == sq(volume_control_db_val(gain) - VOL_MIN_DB)

-----------------------------------------------------------------------------
VARIABLES
  OUTPUT_VOLUME,            \* gain of each element
  OUTPUT_MUTE,              \* mute state of each element
  IS_OUTPUT_STREAM_ACTIVE,
  HOST,                     \* whether initialize has stored the host interface
  pending,                  \* properties a thread's setter has yet to announce
  sets,                     \* calls of set_property_data so far
  changed,                  \* properties the audio server knows to read again
  cache                     \* what the audio server has last read

settings == <<OUTPUT_VOLUME, OUTPUT_MUTE, IS_OUTPUT_STREAM_ACTIVE>>
vars == <<settings, HOST, pending, sets, changed, cache>>

(* The property tables *)

\* The sizes in bytes of the types of coreaudio-sys and of Rust.
size_of ==
  [AudioClassID |-> 4, AudioObjectID |-> 4, CFStringRef |-> 8, UInt32 |-> 4, i32 |-> 4,
   OptionNonZeroU32 |-> 4, Float32 |-> 4, Float64 |-> 8, AudioValueRange |-> 16,
   AudioObjectPropertyScope |-> 4, AudioObjectPropertyElement |-> 4,
   AudioStreamBasicDescription |-> 40, AudioStreamRangedDescription |-> 56,
   AudioChannelDescription |-> 20, AudioChannelLayout |-> 32]
offset_of_mChannelDescriptions == 12

CLASS_ID_SIZE == size_of.AudioClassID
OBJECT_ID_SIZE == size_of.AudioObjectID

\* Mutant: the size of a string reference is taken for that of an ID.
CFSTRING_SIZE_of_id == size_of.AudioObjectID

CFSTRING_SIZE == size_of.CFStringRef

\* A PropertyData: the single size of its range of data sizes, and the items its
\* write_data writes, of a type of its own.  write_once_get_size writes one item
\* whatever the room, write_get_size as many of a list as there is room for.
PropertyData(size, type, is_list, items) ==
  [data_size |-> size, item_size |-> size_of[type], list |-> is_list, values |-> items]
once(size, type, value) == PropertyData(size, type, FALSE, <<value>>)
list(size, type, values) == PropertyData(size, type, TRUE, values)

find_plugin_property_data ==
  [BaseClass |-> once(CLASS_ID_SIZE, "AudioClassID", "object"),
   Class |-> once(CLASS_ID_SIZE, "AudioClassID", "plugin"),
   Owner |-> once(OBJECT_ID_SIZE, "UInt32", Unknown),
   Manufacturer |-> once(CFSTRING_SIZE, "CFStringRef", "text"),
   OwnedObjects |-> list(OBJECT_ID_SIZE * 1, "AudioObjectID", <<DEVICE_ID>>),
   DeviceList |-> list(OBJECT_ID_SIZE * 1, "AudioObjectID", <<DEVICE_ID>>),
   TranslateUIDToDevice |-> once(OBJECT_ID_SIZE, "AudioObjectID", DEVICE_ID),
   ResourceBundle |-> once(CFSTRING_SIZE, "CFStringRef", "text")]

\* Mutant: the range of control IDs is exclusive.
controls_list_exclusive == [i \in 1 .. N_CONTROLS - 1 |-> FIRST_CTRL_ID + i - 1]

\* FIRST_CTRL_ID ..= LAST_CTRL_ID
controls_list == [i \in 1 .. N_CONTROLS |-> FIRST_CTRL_ID + i - 1]

\* The first part of the device's table: names, defaults, layout.
device_scoped_properties ==
  [ElementName |-> once(CFSTRING_SIZE, "CFStringRef", "text"),
   CanBeDefaultDevice |-> once(size_of.UInt32, "UInt32", 1),
   CanBeDefaultSystemDevice |-> once(size_of.UInt32, "UInt32", 1),
   PreferredChannelLayout |->
     once(size_of.AudioChannelDescription * 1 + offset_of_mChannelDescriptions,
          "AudioChannelLayout", "layout")]

device_object_properties ==
  [BaseClass |-> once(CLASS_ID_SIZE, "AudioClassID", "object"),
   SafetyOffset |-> once(size_of.UInt32, "UInt32", 0),
   Latency |-> once(size_of.UInt32, "UInt32", 0),
   Class |-> once(CLASS_ID_SIZE, "AudioClassID", "device"),
   Owner |-> once(OBJECT_ID_SIZE, "AudioObjectID", PLUGIN_ID),
   Name |-> once(CFSTRING_SIZE, "CFStringRef", "text"),
   Manufacturer |-> once(CFSTRING_SIZE, "CFStringRef", "text"),
   OwnedObjects |-> list(N_DEVICE_OWNED_OBJS * OBJECT_ID_SIZE, "AudioObjectID",
                         <<STREAM_ID>> \o controls_list),
   ControlList |-> list(N_CONTROLS * OBJECT_ID_SIZE, "AudioObjectID", controls_list)]

device_io_properties ==
  [DeviceUID |-> once(CFSTRING_SIZE, "CFStringRef", "text"),
   ModelUID |-> once(CFSTRING_SIZE, "CFStringRef", "text"),
   TransportType |-> once(size_of.UInt32, "UInt32", "avb"),
   RelatedDevices |-> list(OBJECT_ID_SIZE, "AudioObjectID", <<DEVICE_ID>>),
   ClockDomain |-> once(size_of.UInt32, "UInt32", 0),
   DeviceIsAlive |-> once(size_of.UInt32, "UInt32", 1),
   DeviceIsRunning |-> once(size_of.UInt32, "OptionNonZeroU32", "clients"),
   NominalSampleRate |-> once(size_of.Float64, "Float64", "rate"),
   AvailableNominalSampleRates |->
     list(size_of.AudioValueRange * 1, "AudioValueRange", <<"rates">>),
   IsHidden |-> once(size_of.UInt32, "UInt32", 0),
   ZeroTimeStampPeriod |-> once(size_of.UInt32, "UInt32", "frames"),
   Streams |-> list(size_of.AudioObjectID * 1, "AudioObjectID", <<STREAM_ID>>)]

\* Merges two records.
Merge(f, g) == [s \in DOMAIN f \cup DOMAIN g |-> IF s \in DOMAIN f THEN f[s] ELSE g[s]]

find_device_property_data ==
  Merge(device_scoped_properties, Merge(device_object_properties, device_io_properties))

find_stream_property_data ==
  [BaseClass |-> once(CLASS_ID_SIZE, "AudioClassID", "object"),
   Class |-> once(CLASS_ID_SIZE, "AudioClassID", "stream"),
   Owner |-> once(OBJECT_ID_SIZE, "AudioObjectID", DEVICE_ID),
   OwnedObjects |-> list(OBJECT_ID_SIZE * 0, "AudioObjectID", <<>>),
   Name |-> once(CFSTRING_SIZE, "CFStringRef", "text"),
   Direction |-> once(size_of.UInt32, "i32", 0),
   TerminalType |-> once(size_of.UInt32, "UInt32", "unknown"),
   StartingChannel |-> once(size_of.UInt32, "i32", 1),
   Latency |-> once(size_of.UInt32, "i32", 0),
   AvailableVirtualFormats |-> list(size_of.AudioStreamRangedDescription * 1,
                                    "AudioStreamRangedDescription", <<"format">>),
   AvailablePhysicalFormats |-> list(size_of.AudioStreamRangedDescription * 1,
                                     "AudioStreamRangedDescription", <<"format">>),
   VirtualFormat |-> once(size_of.AudioStreamBasicDescription,
                          "AudioStreamBasicDescription", "format"),
   PhysicalFormat |-> once(size_of.AudioStreamBasicDescription,
                           "AudioStreamBasicDescription", "format"),
   IsActive |-> once(size_of.UInt32, "UInt32", IS_OUTPUT_STREAM_ACTIVE)]

control_properties(id) ==
  [Owner |-> once(OBJECT_ID_SIZE, "AudioObjectID", DEVICE_ID),
   OwnedObjects |-> list(OBJECT_ID_SIZE * 0, "AudioObjectID", <<>>),
   ControlScope |-> once(size_of.AudioObjectPropertyScope, "UInt32", "output"),
   Element |-> once(size_of.AudioObjectPropertyElement, "AudioObjectPropertyElement",
                    control_channel_index(id))]

volume_properties(id) ==
  LET gain == OUTPUT_VOLUME[control_channel_index(id)]
  IN [BaseClass |-> once(CLASS_ID_SIZE, "AudioClassID", "level"),
      Class |-> once(CLASS_ID_SIZE, "AudioClassID", "volume"),
      ScalarValue |-> once(size_of.Float32, "Float32", volume_control_norm_val(gain)),
      DecibelValue |-> once(size_of.Float32, "Float32", volume_control_db_val(gain)),
      DecibelRange |-> once(size_of.AudioValueRange, "AudioValueRange",
                            [mMinimum |-> VOL_MIN_DB, mMaximum |-> VOL_MAX_DB]),
      ConvertScalarToDecibels |->
        once(size_of.Float32, "Float32", [v \in NormInputs |-> norm_to_db(v)]),
      ConvertDecibelsToScalar |->
        once(size_of.Float32, "Float32", [db \in DbInputs |-> db_to_norm(db)])]

mute_properties(id) ==
  [BaseClass |-> once(CLASS_ID_SIZE, "AudioClassID", "boolean"),
   Class |-> once(CLASS_ID_SIZE, "AudioClassID", "mute"),
   BooleanValue |-> once(size_of.UInt32, "UInt32", OUTPUT_MUTE[control_channel_index(id)])]

find_control_property_data(id) ==
  Merge(control_properties(id),
        IF control_is_volume(id) THEN volume_properties(id) ELSE mute_properties(id))

\* The table of an object.  Other IDs are bad objects and have no properties.
find_property_data(id) ==
  CASE id = PLUGIN_ID -> find_plugin_property_data
    [] id = DEVICE_ID -> find_device_property_data
    [] id = STREAM_ID -> find_stream_property_data
    [] audio_object_is_control(id) -> find_control_property_data(id)
    [] OTHER -> [s \in {} |-> <<>>]

Scopes == {"global", "output", "input"}

\* Whether the object has the property at this scope and element.
has_property(id, selector, scope, element) ==
  /\ selector \in DOMAIN find_property_data(id)
  /\ id = PLUGIN_ID => scope = "global" /\ element = 0
  /\ id = DEVICE_ID /\ selector = "ElementName" => element \in Elements
  /\ id = DEVICE_ID /\ selector \in DOMAIN device_scoped_properties \ {"ElementName"}
       => scope \in {"output", "global"}

\* The declared size does not depend on the scope.
get_property_data_size(id, selector) == find_property_data(id)[selector].data_size

\* As many whole items as there is room for.
write_get_size(values, bytes_available, size) ==
  SubSeq(values, 1, Clamp(bytes_available \div size, 0, Len(values)))

\* The device has no objects in its input scope, and writes nothing there.
NoInput(id, selector, scope) ==
  id = DEVICE_ID /\ selector \in {"OwnedObjects", "Streams"} /\ scope = "input"

\* The write_data of a property, given a buffer of data_size bytes.
write_data(property, id, selector, scope, data_size) ==
  LET size == property.item_size
  IN IF NoInput(id, selector, scope) THEN <<>>
     ELSE write_get_size(property.values, IF property.list THEN data_size ELSE size, size)

\* A buffer smaller than the declared size is refused.
accepts(property, data_size) == data_size >= property.data_size

\* What get_property_data writes once it has found the property.
found_property_data(property, id, selector, scope, data_size) ==
  IF accepts(property, data_size) THEN write_data(property, id, selector, scope, data_size)
                                  ELSE <<>>

get_property_data(id, selector, scope, data_size) ==
  found_property_data(find_property_data(id)[selector], id, selector, scope, data_size)

\* What the audio server reads: it asks for the size first.
Read(id, selector, scope) ==
  get_property_data(id, selector, scope, get_property_data_size(id, selector))

\* The properties whose read_data is Some, each as an object and a selector.
is_property_settable(id, selector) ==
  \/ id = STREAM_ID /\ selector = "IsActive"
  \/ /\ audio_object_is_control(id)
     /\ selector \in IF control_is_volume(id) THEN {"ScalarValue", "DecibelValue"}
                                              ELSE {"BooleanValue"}
Settable ==
  {p \in Objects \X {"IsActive", "ScalarValue", "DecibelValue", "BooleanValue"} :
     is_property_settable(p[1], p[2])}

Value(p) == Read(p[1], p[2], "global")

Inputs(selector) ==
  CASE selector = "ScalarValue" -> NormInputs
    [] selector = "DecibelValue" -> DbInputs
    [] OTHER -> {0, 2}

TypeOK ==
  /\ OUTPUT_VOLUME \in [Elements -> Gains]
  /\ OUTPUT_MUTE \in [Elements -> BOOLEAN]
  /\ IS_OUTPUT_STREAM_ACTIVE \in BOOLEAN
  /\ HOST \in BOOLEAN
  /\ pending \in [Threads -> SUBSET Settable]
  /\ sets \in Nat
  /\ changed \in SUBSET Settable
  /\ DOMAIN cache = Settable

-----------------------------------------------------------------------------
Init ==
  /\ OUTPUT_VOLUME = [e \in Elements |-> IF e = 0 THEN 0 ELSE db_to_gain(0)]
  /\ OUTPUT_MUTE = [e \in Elements |-> FALSE]
  /\ IS_OUTPUT_STREAM_ACTIVE = FALSE
  /\ HOST = FALSE
  /\ pending = [t \in Threads |-> {}]
  /\ sets = 0
  /\ changed = {}
  /\ cache = [p \in Settable |-> <<>>]

\* The host interface is stored; the audio server reads everything before it sets
\* anything.
initialize ==
  /\ ~HOST
  /\ HOST' = TRUE
  /\ cache' = [p \in Settable |-> Value(p)]
  /\ UNCHANGED <<settings, pending, sets, changed>>

\* Mutants: a volume setter announces only the property that was set; the
\* notification names the device instead of the object.
announced_alone(id, selector) == {<<id, selector>>}
announced_device(id, selector) == {<<DEVICE_ID, selector>>}

\* The properties a setter announces: the two volume values change together.
announced(id, selector) ==
  {<<id, s>> : s \in IF selector \in {"ScalarValue", "DecibelValue"}
                     THEN {"ScalarValue", "DecibelValue"} ELSE {selector}}

\* Mutant: a setter of the decibel value stores it as a normalised one.
new_gain_scalar(selector, v) == norm_to_gain(v)

\* The gain stored by a setter: a decibel value is not clamped first.
new_gain(selector, v) == IF selector = "ScalarValue" THEN norm_to_gain(v) ELSE db_to_gain(v)

\* The first part of set_property_data: the value is stored.
set_property_data(t, id, selector, v) ==
  LET ctrl_idx == control_channel_index(id)
  IN /\ HOST
     /\ pending[t] = {}
     /\ sets < MaxSets
     /\ sets' = sets + 1
     /\ is_property_settable(id, selector)
     /\ IS_OUTPUT_STREAM_ACTIVE' =
          IF id = STREAM_ID THEN v # 0 ELSE IS_OUTPUT_STREAM_ACTIVE
     /\ OUTPUT_MUTE' = IF selector = "BooleanValue"
                       THEN [OUTPUT_MUTE EXCEPT ![ctrl_idx] = v # 0] ELSE OUTPUT_MUTE
     /\ OUTPUT_VOLUME' = IF selector \in {"ScalarValue", "DecibelValue"}
                         THEN [OUTPUT_VOLUME EXCEPT ![ctrl_idx] = new_gain(selector, v)]
                         ELSE OUTPUT_VOLUME
     /\ pending' = [pending EXCEPT ![t] = announced(id, selector)]
     /\ UNCHANGED <<HOST, changed, cache>>

\* The second part: the callback, if the host has been stored.
properties_changed(t) ==
  /\ pending[t] # {}
  /\ changed' = IF HOST THEN changed \cup pending[t] ELSE changed
  /\ pending' = [pending EXCEPT ![t] = {}]
  /\ UNCHANGED <<settings, HOST, sets, cache>>

\* The audio server reads a property it knows to have changed.
Refresh(p) ==
  /\ p \in changed
  /\ changed' = changed \ {p}
  /\ cache' = [cache EXCEPT ![p] = Value(p)]
  /\ UNCHANGED <<settings, HOST, pending, sets>>

Set == \E t \in Threads, p \in Settable :
         \E v \in Inputs(p[2]) : set_property_data(t, p[1], p[2], v)

Next ==
  \/ initialize
  \/ Set
  \/ \E t \in Threads : properties_changed(t)
  \/ \E p \in Settable : Refresh(p)

Spec == Init /\ [][Next]_vars

-----------------------------------------------------------------------------
\* Walking the tree down from the plug-in and up from the objects gives the same
\* tree: an object lists exactly the objects that name it as their owner, and the
\* lists by kind are those of the owned objects.  And the controls listed cover the
\* two arrays: every element has exactly one control of each kind, and every control
\* has an element, so that no setter's index leaves the arrays.  The device owns the
\* controls, as N_DEVICE_OWNED_OBJS (lib.rs:29-31) and the tables have it; the drawing of
\* the tree (lib.rs:64-74) indents them below the stream.
ObjectTree ==
  /\ LET owner == [o \in Objects |-> Read(o, "Owner", "global")] IN
     \A id \in Objects :
       LET owned == Read(id, "OwnedObjects", "global")
       IN /\ {owned[i] : i \in DOMAIN owned} = {o \in Objects : owner[o] = <<id>>}
          /\ \A s \in {"Owner", "OwnedObjects", "Class", "BaseClass"} :
               has_property(id, s, "global", 0)
          /\ id = DEVICE_ID =>
               owned = Read(id, "Streams", "output") \o Read(id, "ControlList", "output")
  /\ \A id \in Controls : control_channel_index(id) \in
       DOMAIN (IF control_is_volume(id) THEN OUTPUT_VOLUME ELSE OUTPUT_MUTE)
  /\ \A kind \in BOOLEAN : \A e \in DOMAIN (IF kind THEN OUTPUT_VOLUME ELSE OUTPUT_MUTE) :
       \E id \in Controls : \A d \in Controls :
         (control_is_volume(d) = kind /\ control_channel_index(d) = e) <=> d = id

\* The size a property declares is the number of bytes written for it, which the code
\* computes in another place and from another type: a buffer of the size that
\* get_property_data_size gives is filled to the last byte, in every scope that has the
\* property.  The device's OwnedObjects and Streams are the exception, and only in the
\* input scope: they declare their size there too ("This method returns the byte size
\* of the property's data", lib.rs:751) and write nothing.  No buffer is written past
\* its end.
SizesFitData ==
  \A id \in Objects : LET table == find_property_data(id) IN
    \A selector \in DOMAIN table : \A scope \in Scopes :
      has_property(id, selector, scope, 0) =>
        LET property == table[selector]
            declared == property.data_size
            written(data_size) ==
              property.item_size
                * Len(found_property_data(property, id, selector, scope, data_size))
        IN /\ written(declared) = IF NoInput(id, selector, scope) THEN 0 ELSE declared
           /\ \A data_size \in {0, declared \div 2, declared + property.item_size + 1} :
                written(data_size) <= data_size

\* The audio server's view of a property is right, or it knows that it has to read
\* it again, or a setter is about to tell it: the store precedes the callback.
ViewCurrent ==
  HOST => \A p \in Settable :
    cache[p] = Value(p) \/ p \in changed \/ \E t \in Threads : p \in pending[t]

\* What a setter stores is what is read back, clamped to the range, and on the other
\* scale as its square law has it: whichever of the two values is set, both conversions
\* to a gain and back again (norm_to_gain, db_to_gain, gain_to_db) agree on it.
SetReadsBack ==
  [][sets' # sets => \A t \in Threads, p \in Settable : \A v \in Inputs(p[2]) :
       set_property_data(t, p[1], p[2], v) =>
         CASE p[2] = "ScalarValue" ->
                /\ Value(p)' = <<Clamp(v, 0, NormMax)>>
                /\ Value(<<p[1], "DecibelValue">>)' = <<norm_to_db(v)>>
           [] p[2] = "DecibelValue" ->
                LET db == Clamp(v, VOL_MIN_DB, VOL_MAX_DB)
                IN /\ Value(p)' = <<db>>
                   /\ Value(<<p[1], "ScalarValue">>)' = <<sq(db - VOL_MIN_DB)>>
           [] OTHER -> Value(p)' = <<v # 0>>]_vars
=============================================================================
