------------------------ MODULE HalPropertiesProofs ------------------------
(***************************************************************************)
(* Proofs about HalProperties, for any number of channels, any volume      *)
(* range, any increasing gains and any set of threads.                     *)
(*                                                                         *)
(* Every property of every table is Sound: what it declares is the size of *)
(* the items it writes (EveryPropertySound), so that what is read is what  *)
(* the table has (ReadsValues).  For a settable property that is the       *)
(* variable that stores it (ValueIsStored); the rest is about which        *)
(* variable a setter changes, which is a matter of control IDs being told  *)
(* apart by their kind and their element (ControlsDiffer), and about       *)
(* gain_to_db being the inverse of db_to_gain (GainInverse).               *)
(***************************************************************************)
EXTENDS HalProperties, TLAPS

\* The value of a settable property, read from its variable.
Stored(p) ==
  LET e == control_channel_index(p[1])
  IN CASE p[2] = "IsActive" -> IS_OUTPUT_STREAM_ACTIVE
       [] p[2] = "BooleanValue" -> OUTPUT_MUTE[e]
       [] p[2] = "ScalarValue" -> volume_control_norm_val(OUTPUT_VOLUME[e])
       [] p[2] = "DecibelValue" -> volume_control_db_val(OUTPUT_VOLUME[e])

\* The objects are the plug-in, the device, the stream and the controls, and a
\* control's index is an element.
LEMMA ObjectRange ==
  /\ N_CONTROLS \in Nat /\ N_CONTROLS = 2 * (N_CHANNELS + 1)
  /\ LAST_CTRL_ID = 2 * N_CHANNELS + 5
  /\ Objects \subseteq Nat
  /\ \A id : audio_object_is_control(id) =>
       /\ id \in Nat /\ id >= 4
       /\ control_channel_index(id) \in Elements
BY HalAssumption
DEF N_CONTROLS, LAST_CTRL_ID, Objects, FIRST_CTRL_ID, PLUGIN_ID, audio_object_is_control,
    control_channel_index, Elements

\* Two controls of the same kind have different indices.
LEMMA ControlsDiffer ==
  ASSUME NEW a, NEW b, audio_object_is_control(a), audio_object_is_control(b),
         control_is_volume(a) <=> control_is_volume(b), a # b
  PROVE  control_channel_index(a) # control_channel_index(b)
<1>1. a \in Nat /\ b \in Nat
  BY ObjectRange
<1>. QED
  BY <1>1 DEF control_is_volume, control_channel_index, FIRST_CTRL_ID

\* The settable properties and their objects.
LEMMA SettableCases ==
  ASSUME NEW p \in Settable
  PROVE  /\ p = <<p[1], p[2]>> /\ p[1] \in Objects
         /\ \/ p[1] = STREAM_ID /\ p[2] = "IsActive"
            \/ audio_object_is_control(p[1]) /\ control_is_volume(p[1])
                 /\ p[2] \in {"ScalarValue", "DecibelValue"}
            \/ audio_object_is_control(p[1]) /\ ~control_is_volume(p[1])
                 /\ p[2] = "BooleanValue"
BY DEF Settable, is_property_settable

-----------------------------------------------------------------------------
(* The properties of the tables *)

\* A buffer with room for all items receives all of them.
LEMMA WholeData ==
  ASSUME NEW T, NEW s \in Seq(T), NEW size \in Nat \ {0}, NEW b \in Nat, b >= size * Len(s)
  PROVE  write_get_size(s, b, size) = s
<1>. DEFINE n == Len(s)  q == b \div size
<1>1. n \in Nat
  OBVIOUS
<1>2. q \in Nat /\ size * q <= b /\ b < size * q + size
  OBVIOUS
<1>3. q >= n
  <2>. HIDE DEF q, n
  <2>1. size * n < size * q + size
    BY <1>1, <1>2 DEF n
  <2>2. ASSUME q < n PROVE FALSE
    <3>1. size * (q + 1) <= size * n
      BY <1>1, <1>2, <2>2
    <3>. QED
      BY <1>1, <1>2, <2>1, <3>1
  <2>. QED
    BY <1>1, <1>2, <2>2
<1>. HIDE DEF q
<1>4. Clamp(q, 0, n) = n
  BY <1>1, <1>2, <1>3 DEF Clamp
<1>5. SubSeq(s, 1, n) = s
  <2>1. /\ SubSeq(s, 1, n) \in Seq(T) /\ Len(SubSeq(s, 1, n)) = n
        /\ \A k \in 1 .. n : SubSeq(s, 1, n)[k] = s[k]
    BY <1>1
  <2>2. ASSUME NEW t \in Seq(T), Len(t) = Len(s), \A k \in 1 .. Len(s) : t[k] = s[k]
        PROVE  t = s
    <3>1. t = [k \in 1 .. Len(t) |-> t[k]] /\ s = [k \in 1 .. Len(s) |-> s[k]]
      OBVIOUS
    <3>. QED
      BY <2>2, <3>1
  <2>. QED
    BY <2>1, <2>2
<1>. QED
  BY <1>4, <1>5 DEF write_get_size, q

\* The sizes of the types.
LEMMA TypeSizes ==
  /\ size_of["AudioClassID"] = 4 /\ size_of["AudioObjectID"] = 4 /\ size_of["UInt32"] = 4
  /\ size_of["i32"] = 4 /\ size_of["OptionNonZeroU32"] = 4 /\ size_of["Float32"] = 4
  /\ size_of["AudioObjectPropertyScope"] = 4 /\ size_of["AudioObjectPropertyElement"] = 4
  /\ size_of["CFStringRef"] = 8 /\ size_of["Float64"] = 8 /\ size_of["AudioValueRange"] = 16
  /\ size_of["AudioStreamBasicDescription"] = 40 /\ size_of["AudioStreamRangedDescription"] = 56
  /\ size_of["AudioChannelDescription"] = 20 /\ size_of["AudioChannelLayout"] = 32
  /\ CLASS_ID_SIZE = 4 /\ OBJECT_ID_SIZE = 4 /\ CFSTRING_SIZE = 8
BY DEF size_of, CLASS_ID_SIZE, OBJECT_ID_SIZE, CFSTRING_SIZE

\* A property whose declared size is that of its items.
Sound(q) ==
  /\ q.item_size \in Nat \ {0}
  /\ q.values \in Seq({q.values[1]}) \/ q.values \in Seq(Nat)
  /\ q.data_size = q.item_size * Len(q.values)
  /\ q.list \/ Len(q.values) = 1

LEMMA OnceSound ==
  ASSUME NEW size \in Nat \ {0}, NEW type, NEW v, size_of[type] = size
  PROVE  Sound(once(size, type, v)) /\ once(size, type, v).values = <<v>>
<1>. DEFINE q == once(size, type, v)
<1>1. /\ q.data_size = size /\ q.item_size = size_of[type] /\ q.list = FALSE
      /\ q.values = <<v>>
  BY DEF once, PropertyData
<1>2. <<v>> \in Seq({v}) /\ Len(<<v>>) = 1 /\ <<v>>[1] = v
  OBVIOUS
<1>. HIDE DEF q
<1>3. q.values \in Seq({q.values[1]}) /\ Len(q.values) = 1
  BY <1>1, <1>2
<1>4. q.data_size = q.item_size * Len(q.values)
  BY <1>1, <1>3
<1>5. Sound(q)
  BY <1>1, <1>3, <1>4 DEF Sound
<1>. QED
  BY <1>1, <1>5 DEF q

LEMMA ListSound ==
  ASSUME NEW size \in Nat, NEW type, NEW s, s \in Seq({s[1]}) \/ s \in Seq(Nat),
         size_of[type] \in Nat \ {0}, size = size_of[type] * Len(s)
  PROVE  Sound(list(size, type, s)) /\ list(size, type, s).values = s
<1>. DEFINE q == list(size, type, s)
<1>1. /\ q.data_size = size /\ q.item_size = size_of[type] /\ q.list = TRUE /\ q.values = s
  BY DEF list, PropertyData
<1>. HIDE DEF q
<1>2. Sound(q)
  BY <1>1 DEF Sound
<1>. QED
  BY <1>1, <1>2 DEF q

\* A list of one item.
LEMMA SingleSound ==
  ASSUME NEW size \in Nat \ {0}, NEW type, NEW v, size_of[type] = size
  PROVE  Sound(list(size, type, <<v>>)) /\ list(size, type, <<v>>).values = <<v>>
<1>1. <<v>> \in Seq({v}) /\ Len(<<v>>) = 1 /\ <<v>>[1] = v
  OBVIOUS
<1>2. size = size_of[type] * Len(<<v>>) /\ size_of[type] \in Nat \ {0} /\ size \in Nat
  BY <1>1
<1>3. <<v>> \in Seq({<<v>>[1]})
  BY <1>1
<1>. QED
  BY <1>2, <1>3, ListSound

\* The IDs of the controls, in order.
LEMMA ControlsList ==
  /\ controls_list \in Seq(Nat) /\ Len(controls_list) = N_CONTROLS
  /\ \A i \in 1 .. N_CONTROLS : controls_list[i] = 3 + i
BY ObjectRange DEF controls_list, FIRST_CTRL_ID

\* The kinds of object.
LEMMA ObjectKinds ==
  /\ Objects = {PLUGIN_ID, DEVICE_ID, STREAM_ID} \cup Controls
  /\ \A id \in Controls : audio_object_is_control(id) /\ id \in Objects
       /\ id \notin {PLUGIN_ID, DEVICE_ID, STREAM_ID}
  /\ ~audio_object_is_control(PLUGIN_ID) /\ ~audio_object_is_control(DEVICE_ID)
  /\ ~audio_object_is_control(STREAM_ID)
  /\ Controls = 4 .. N_CONTROLS + 3
BY ObjectRange
DEF Objects, Controls, audio_object_is_control, PLUGIN_ID, DEVICE_ID, STREAM_ID,
    FIRST_CTRL_ID, LAST_CTRL_ID

\* The table of each kind.
LEMMA Tables ==
  /\ find_property_data(PLUGIN_ID) = find_plugin_property_data
  /\ find_property_data(DEVICE_ID) = find_device_property_data
  /\ find_property_data(STREAM_ID) = find_stream_property_data
  /\ \A id \in Controls : find_property_data(id) = find_control_property_data(id)
<1>1. PLUGIN_ID # DEVICE_ID /\ PLUGIN_ID # STREAM_ID /\ DEVICE_ID # STREAM_ID
  BY DEF PLUGIN_ID, DEVICE_ID, STREAM_ID
<1>2. find_property_data(PLUGIN_ID) = find_plugin_property_data
  BY <1>1, ObjectKinds DEF find_property_data
<1>3. find_property_data(DEVICE_ID) = find_device_property_data
  BY <1>1, ObjectKinds DEF find_property_data
<1>4. find_property_data(STREAM_ID) = find_stream_property_data
  BY <1>1, ObjectKinds DEF find_property_data
<1>5. ASSUME NEW id \in Controls
      PROVE  find_property_data(id) = find_control_property_data(id)
  <2>1. audio_object_is_control(id) /\ id # PLUGIN_ID /\ id # DEVICE_ID /\ id # STREAM_ID
    BY ObjectKinds
  <2>. QED
    BY <2>1 DEF find_property_data
<1>. QED
  BY <1>2, <1>3, <1>4, <1>5

\* A record of properties with nothing but sound ones.
AllSound(table) == \A s \in DOMAIN table : Sound(table[s])

\* The kinds of single value the tables are made of, and of one-item list.
LEMMA CommonSound ==
  /\ \A v : Sound(once(CLASS_ID_SIZE, "AudioClassID", v))
  /\ \A v : Sound(once(OBJECT_ID_SIZE, "AudioObjectID", v))
  /\ \A v : Sound(once(OBJECT_ID_SIZE, "UInt32", v))
  /\ \A v : Sound(once(CFSTRING_SIZE, "CFStringRef", v))
  /\ \A v : Sound(once(size_of.UInt32, "UInt32", v))
  /\ \A v : Sound(once(size_of.UInt32, "i32", v))
  /\ \A v : Sound(once(size_of.UInt32, "OptionNonZeroU32", v))
  /\ \A v : Sound(once(size_of.Float32, "Float32", v))
  /\ \A v : Sound(once(size_of.Float64, "Float64", v))
  /\ \A v : Sound(once(size_of.AudioValueRange, "AudioValueRange", v))
  /\ \A v : Sound(once(size_of.AudioStreamBasicDescription, "AudioStreamBasicDescription", v))
  /\ \A v : Sound(once(size_of.AudioObjectPropertyScope, "UInt32", v))
  /\ \A v : Sound(once(size_of.AudioObjectPropertyElement, "AudioObjectPropertyElement", v))
  /\ \A v : Sound(list(OBJECT_ID_SIZE, "AudioObjectID", <<v>>))
  /\ \A v : Sound(list(OBJECT_ID_SIZE * 1, "AudioObjectID", <<v>>))
  /\ \A v : Sound(list(size_of.AudioObjectID * 1, "AudioObjectID", <<v>>))
  /\ \A v : Sound(list(size_of.AudioValueRange * 1, "AudioValueRange", <<v>>))
  /\ \A v : Sound(list(size_of.AudioStreamRangedDescription * 1,
                       "AudioStreamRangedDescription", <<v>>))
<1>1. /\ \A v : Sound(once(CLASS_ID_SIZE, "AudioClassID", v))
      /\ \A v : Sound(once(OBJECT_ID_SIZE, "AudioObjectID", v))
      /\ \A v : Sound(once(OBJECT_ID_SIZE, "UInt32", v))
      /\ \A v : Sound(once(CFSTRING_SIZE, "CFStringRef", v))
  <2>1. \A v : Sound(once(CLASS_ID_SIZE, "AudioClassID", v))
    BY TypeSizes, OnceSound
  <2>2. \A v : Sound(once(OBJECT_ID_SIZE, "AudioObjectID", v))
    BY TypeSizes, OnceSound
  <2>3. \A v : Sound(once(OBJECT_ID_SIZE, "UInt32", v))
    BY TypeSizes, OnceSound
  <2>4. \A v : Sound(once(CFSTRING_SIZE, "CFStringRef", v))
    BY TypeSizes, OnceSound
  <2>. QED
    BY <2>1, <2>2, <2>3, <2>4
<1>2. /\ \A v : Sound(once(size_of.UInt32, "UInt32", v))
      /\ \A v : Sound(once(size_of.UInt32, "i32", v))
      /\ \A v : Sound(once(size_of.UInt32, "OptionNonZeroU32", v))
      /\ \A v : Sound(once(size_of.Float32, "Float32", v))
      /\ \A v : Sound(once(size_of.Float64, "Float64", v))
  BY TypeSizes, OnceSound
<1>3. /\ \A v : Sound(once(size_of.AudioValueRange, "AudioValueRange", v))
      /\ \A v : Sound(once(size_of.AudioStreamBasicDescription, "AudioStreamBasicDescription", v))
      /\ \A v : Sound(once(size_of.AudioObjectPropertyScope, "UInt32", v))
      /\ \A v : Sound(once(size_of.AudioObjectPropertyElement, "AudioObjectPropertyElement", v))
  BY TypeSizes, OnceSound
<1>4. /\ \A v : Sound(list(OBJECT_ID_SIZE, "AudioObjectID", <<v>>))
      /\ \A v : Sound(list(OBJECT_ID_SIZE * 1, "AudioObjectID", <<v>>))
      /\ \A v : Sound(list(size_of.AudioObjectID * 1, "AudioObjectID", <<v>>))
      /\ \A v : Sound(list(size_of.AudioValueRange * 1, "AudioValueRange", <<v>>))
      /\ \A v : Sound(list(size_of.AudioStreamRangedDescription * 1,
                           "AudioStreamRangedDescription", <<v>>))
  BY TypeSizes, SingleSound
<1>. QED
  BY <1>1, <1>2, <1>3, <1>4

LEMMA PluginSound == AllSound(find_plugin_property_data)
BY CommonSound DEF find_plugin_property_data, AllSound

\* A list of no items.
LEMMA EmptySound ==
  LET q == list(OBJECT_ID_SIZE * 0, "AudioObjectID", <<>>)
  IN Sound(q) /\ q.values = <<>>
<1>. DEFINE q == list(OBJECT_ID_SIZE * 0, "AudioObjectID", <<>>)
<1>1. /\ q.data_size = OBJECT_ID_SIZE * 0 /\ q.item_size = size_of["AudioObjectID"]
      /\ q.list = TRUE /\ q.values = <<>>
  BY DEF list, PropertyData
<1>2. q.data_size = 0 /\ q.item_size = 4
  BY <1>1, TypeSizes
<1>. HIDE DEF q
<1>3. q.values \in Seq(Nat) /\ Len(q.values) = 0
  BY <1>1
<1>4. Sound(q)
  BY <1>1, <1>2, <1>3 DEF Sound
<1>. QED
  BY <1>1, <1>4 DEF q

LEMMA StreamSound == AllSound(find_stream_property_data)
BY EmptySound, CommonSound DEF find_stream_property_data, AllSound

LEMMA DeviceSound == AllSound(find_device_property_data)
<1>1. AllSound(device_scoped_properties)
  <2>1. size_of["AudioChannelDescription"] * 1 + offset_of_mChannelDescriptions = 32
    BY TypeSizes DEF offset_of_mChannelDescriptions
  <2>2. Sound(once(size_of.AudioChannelDescription * 1 + offset_of_mChannelDescriptions,
                   "AudioChannelLayout", "layout"))
    <3>. DEFINE size == size_of.AudioChannelDescription * 1 + offset_of_mChannelDescriptions
    <3>1. size \in Nat \ {0} /\ size_of["AudioChannelLayout"] = size
      BY <2>1, TypeSizes
    <3>. HIDE DEF size
    <3>2. Sound(once(size, "AudioChannelLayout", "layout"))
      BY <3>1, OnceSound
    <3>. QED
      BY <3>2 DEF size
  <2>. QED
    BY <2>2, CommonSound DEF device_scoped_properties, AllSound
<1>2. AllSound(device_object_properties)
  <2>. DEFINE owned == <<STREAM_ID>> \o controls_list
  <2>1. owned \in Seq(Nat) /\ Len(owned) = N_DEVICE_OWNED_OBJS
    <3>1. <<STREAM_ID>> \in Seq(Nat) /\ Len(<<STREAM_ID>>) = 1
      BY DEF STREAM_ID
    <3>. QED
      BY <3>1, ControlsList, ObjectRange DEF N_DEVICE_OWNED_OBJS
  <2>. HIDE DEF owned
  <2>2. N_CONTROLS \in Nat /\ N_DEVICE_OWNED_OBJS \in Nat
    BY ObjectRange DEF N_DEVICE_OWNED_OBJS
  <2>3. Sound(list(N_DEVICE_OWNED_OBJS * OBJECT_ID_SIZE, "AudioObjectID", owned))
    <3>. DEFINE size == N_DEVICE_OWNED_OBJS * OBJECT_ID_SIZE
    <3>1. size \in Nat /\ size = size_of["AudioObjectID"] * Len(owned)
      BY <2>1, <2>2, TypeSizes
    <3>. HIDE DEF size
    <3>2. size_of["AudioObjectID"] \in Nat \ {0}
      BY TypeSizes
    <3>3. Sound(list(size, "AudioObjectID", owned))
      BY <2>1, <3>1, <3>2, ListSound
    <3>. QED
      BY <3>3 DEF size
  <2>4. Sound(list(N_CONTROLS * OBJECT_ID_SIZE, "AudioObjectID", controls_list))
    <3>. DEFINE size == N_CONTROLS * OBJECT_ID_SIZE
    <3>1. size \in Nat /\ size = size_of["AudioObjectID"] * Len(controls_list)
      BY <2>2, TypeSizes, ControlsList
    <3>. HIDE DEF size
    <3>2. size_of["AudioObjectID"] \in Nat \ {0}
      BY TypeSizes
    <3>3. Sound(list(size, "AudioObjectID", controls_list))
      BY <3>1, <3>2, ListSound, ControlsList
    <3>. QED
      BY <3>3 DEF size
  <2>. QED
    <3>. DEFINE base == once(CLASS_ID_SIZE, "AudioClassID", "object")
                class == once(CLASS_ID_SIZE, "AudioClassID", "device")
                zero == once(size_of.UInt32, "UInt32", 0)
                owner == once(OBJECT_ID_SIZE, "AudioObjectID", PLUGIN_ID)
                text == once(CFSTRING_SIZE, "CFStringRef", "text")
                objects == list(N_DEVICE_OWNED_OBJS * OBJECT_ID_SIZE, "AudioObjectID",
                                <<STREAM_ID>> \o controls_list)
                controls == list(N_CONTROLS * OBJECT_ID_SIZE, "AudioObjectID", controls_list)
    <3>1. /\ Sound(base) /\ Sound(class) /\ Sound(zero) /\ Sound(owner) /\ Sound(text)
          /\ Sound(objects) /\ Sound(controls)
      BY <2>3, <2>4, CommonSound DEF owned
    <3>2. device_object_properties =
            [BaseClass |-> base, SafetyOffset |-> zero, Latency |-> zero, Class |-> class,
             Owner |-> owner, Name |-> text, Manufacturer |-> text, OwnedObjects |-> objects,
             ControlList |-> controls]
      BY Zenon DEF device_object_properties
    <3>. HIDE DEF base, class, zero, owner, text, objects, controls
    <3>. QED
      BY <3>1, <3>2 DEF AllSound
<1>3. AllSound(device_io_properties)
  <2>. DEFINE text == once(CFSTRING_SIZE, "CFStringRef", "text")
              transport == once(size_of.UInt32, "UInt32", "avb")
              related == list(OBJECT_ID_SIZE, "AudioObjectID", <<DEVICE_ID>>)
              zero == once(size_of.UInt32, "UInt32", 0)
              alive == once(size_of.UInt32, "UInt32", 1)
              running == once(size_of.UInt32, "OptionNonZeroU32", "clients")
              rate == once(size_of.Float64, "Float64", "rate")
              rates == list(size_of.AudioValueRange * 1, "AudioValueRange", <<"rates">>)
              period == once(size_of.UInt32, "UInt32", "frames")
              streams == list(size_of.AudioObjectID * 1, "AudioObjectID", <<STREAM_ID>>)
  <2>1. /\ Sound(text) /\ Sound(transport) /\ Sound(related) /\ Sound(zero) /\ Sound(alive)
        /\ Sound(running) /\ Sound(rate) /\ Sound(rates) /\ Sound(period) /\ Sound(streams)
    BY CommonSound
  <2>2. device_io_properties =
          [DeviceUID |-> text, ModelUID |-> text, TransportType |-> transport,
           RelatedDevices |-> related, ClockDomain |-> zero, DeviceIsAlive |-> alive,
           DeviceIsRunning |-> running, NominalSampleRate |-> rate,
           AvailableNominalSampleRates |-> rates, IsHidden |-> zero,
           ZeroTimeStampPeriod |-> period, Streams |-> streams]
    BY Zenon DEF device_io_properties
  <2>. HIDE DEF text, transport, related, zero, alive, running, rate, rates, period, streams
  <2>. QED
    BY <2>1, <2>2 DEF AllSound
<1>. QED
  BY <1>1, <1>2, <1>3 DEF find_device_property_data, Merge, AllSound

LEMMA ControlSound == \A id : AllSound(find_control_property_data(id))
<1>. SUFFICES ASSUME NEW id
              PROVE  AllSound(find_control_property_data(id))
  OBVIOUS
<1>1. AllSound(control_properties(id))
  <2>. DEFINE owner == once(OBJECT_ID_SIZE, "AudioObjectID", DEVICE_ID)
              owned == list(OBJECT_ID_SIZE * 0, "AudioObjectID", <<>>)
              scope == once(size_of.AudioObjectPropertyScope, "UInt32", "output")
              element == once(size_of.AudioObjectPropertyElement, "AudioObjectPropertyElement",
                              control_channel_index(id))
  <2>1. Sound(owner) /\ Sound(scope) /\ Sound(element)
    BY CommonSound
  <2>2. Sound(owned)
    BY EmptySound
  <2>3. control_properties(id) = [Owner |-> owner, OwnedObjects |-> owned,
                                  ControlScope |-> scope, Element |-> element]
    BY Zenon DEF control_properties
  <2>. HIDE DEF owner, owned, scope, element
  <2>. QED
    BY <2>1, <2>2, <2>3 DEF AllSound
<1>2. AllSound(volume_properties(id))
  <2>. DEFINE gain == OUTPUT_VOLUME[control_channel_index(id)]
              base == once(CLASS_ID_SIZE, "AudioClassID", "level")
              class == once(CLASS_ID_SIZE, "AudioClassID", "volume")
              norm == once(size_of.Float32, "Float32", volume_control_norm_val(gain))
              db == once(size_of.Float32, "Float32", volume_control_db_val(gain))
              range == once(size_of.AudioValueRange, "AudioValueRange",
                            [mMinimum |-> VOL_MIN_DB, mMaximum |-> VOL_MAX_DB])
              toDb == once(size_of.Float32, "Float32", [v \in NormInputs |-> norm_to_db(v)])
              toNorm == once(size_of.Float32, "Float32", [d \in DbInputs |-> db_to_norm(d)])
  <2>1. Sound(base) /\ Sound(class) /\ Sound(norm) /\ Sound(db)
    BY CommonSound
  <2>2. Sound(range) /\ Sound(toDb) /\ Sound(toNorm)
    BY CommonSound, Zenon
  <2>3. volume_properties(id) =
          [BaseClass |-> base, Class |-> class, ScalarValue |-> norm, DecibelValue |-> db,
           DecibelRange |-> range, ConvertScalarToDecibels |-> toDb,
           ConvertDecibelsToScalar |-> toNorm]
    BY Zenon DEF volume_properties
  <2>. HIDE DEF base, class, norm, db, range, toDb, toNorm
  <2>. QED
    BY <2>1, <2>2, <2>3 DEF AllSound
<1>3. AllSound(mute_properties(id))
  <2>. DEFINE base == once(CLASS_ID_SIZE, "AudioClassID", "boolean")
              class == once(CLASS_ID_SIZE, "AudioClassID", "mute")
              value == once(size_of.UInt32, "UInt32", OUTPUT_MUTE[control_channel_index(id)])
  <2>1. Sound(base) /\ Sound(class) /\ Sound(value)
    BY CommonSound
  <2>2. mute_properties(id) = [BaseClass |-> base, Class |-> class, BooleanValue |-> value]
    BY Zenon DEF mute_properties
  <2>. HIDE DEF base, class, value
  <2>. QED
    BY <2>1, <2>2 DEF AllSound
<1>. QED
  BY <1>1, <1>2, <1>3 DEF find_control_property_data, Merge, AllSound

\* Every property of every object declares the size of its items.
LEMMA EveryPropertySound == \A id \in Objects : AllSound(find_property_data(id))
<1>. SUFFICES ASSUME NEW id \in Objects
              PROVE  AllSound(find_property_data(id))
  OBVIOUS
<1>1. CASE id = PLUGIN_ID
  BY <1>1, Tables, PluginSound
<1>2. CASE id = DEVICE_ID
  BY <1>2, Tables, DeviceSound
<1>3. CASE id = STREAM_ID
  BY <1>3, Tables, StreamSound
<1>4. CASE id \in Controls
  BY <1>4, Tables, ControlSound
<1>. QED
  BY <1>1, <1>2, <1>3, <1>4, ObjectKinds

\* A buffer that is large enough receives all items.
LEMMA WholeProperty ==
  ASSUME NEW q, Sound(q), NEW id, NEW sel, NEW scope, NEW data_size \in Nat,
         accepts(q, data_size), ~NoInput(id, sel, scope)
  PROVE  write_data(q, id, sel, scope, data_size) = q.values
<1>. DEFINE values == q.values  size == q.item_size
            room == IF q.list THEN data_size ELSE size
<1>1. /\ size \in Nat \ {0}
      /\ values \in Seq({values[1]}) \/ values \in Seq(Nat)
      /\ q.data_size = size * Len(values)
      /\ q.list \/ Len(values) = 1
  BY DEF Sound
<1>2. Len(values) \in Nat
  BY <1>1
<1>3. data_size >= q.data_size
  BY DEF accepts
<1>4. write_data(q, id, sel, scope, data_size) = write_get_size(values, room, size)
  BY DEF write_data
<1>. HIDE DEF values, size
<1>5. room \in Nat /\ room >= size * Len(values)
  <2>1. CASE q.list
    BY <1>1, <1>3, <2>1
  <2>2. CASE ~q.list
    <3>1. Len(values) = 1 /\ room = size
      BY <1>1, <2>2
    <3>2. size * 1 = size /\ size >= size
      BY <1>1
    <3>. QED
      BY <1>1, <3>1, <3>2
  <2>. QED
    BY <2>1, <2>2
<1>6. write_get_size(values, room, size) = values
  <2>. HIDE DEF room
  <2>. QED
    BY <1>1, <1>5, WholeData
<1>. QED
  BY <1>4, <1>6 DEF values

\* What is read is the value of the table.
LEMMA ReadsValues ==
  ASSUME NEW id \in Objects, NEW sel \in DOMAIN find_property_data(id), NEW scope,
         ~NoInput(id, sel, scope)
  PROVE  Read(id, sel, scope) = find_property_data(id)[sel].values
<1>. DEFINE q == find_property_data(id)[sel]
<1>1. Sound(q)
  BY EveryPropertySound DEF AllSound
<1>2. Read(id, sel, scope) = found_property_data(q, id, sel, scope, q.data_size)
  BY DEF Read, get_property_data, get_property_data_size
<1>. HIDE DEF q
<1>3. q.data_size \in Nat
  <2>1. /\ q.item_size \in Nat /\ q.data_size = q.item_size * Len(q.values)
        /\ Len(q.values) \in Nat
    BY <1>1 DEF Sound
  <2>. QED
    BY <2>1
<1>4. accepts(q, q.data_size)
  BY <1>3 DEF accepts
<1>. QED
  BY <1>1, <1>2, <1>3, <1>4, WholeProperty DEF found_property_data, q

-----------------------------------------------------------------------------
(* Settable properties *)

\* Reading a settable property gives the variable it is stored in.
LEMMA ValueIsStored == \A p \in Settable : Value(p) = <<Stored(p)>>
<1>. SUFFICES ASSUME NEW p \in Settable
              PROVE  Value(p) = <<Stored(p)>>
  OBVIOUS
<1>. DEFINE id == p[1]  sel == p[2]
<1>1. id # PLUGIN_ID /\ id # DEVICE_ID /\ (id = STREAM_ID <=> sel = "IsActive")
  BY SettableCases, ObjectRange DEF PLUGIN_ID, DEVICE_ID, STREAM_ID
<1>2. SUFFICES /\ sel \in DOMAIN find_property_data(id)
               /\ find_property_data(id)[sel].values = <<Stored(p)>>
  <2>1. ~NoInput(id, sel, "global") /\ id \in Objects
    BY SettableCases DEF NoInput
  <2>. QED
    BY <1>2, <2>1, ReadsValues DEF Value
<1>3. CASE sel = "IsActive"
  <2>1. find_property_data(id) = find_stream_property_data
    BY <1>1, <1>3, Tables
  <2>2. /\ "IsActive" \in DOMAIN find_stream_property_data
        /\ find_stream_property_data["IsActive"]
             = once(size_of.UInt32, "UInt32", IS_OUTPUT_STREAM_ACTIVE)
    BY DEF find_stream_property_data
  <2>3. Stored(p) = IS_OUTPUT_STREAM_ACTIVE
    BY <1>3 DEF Stored
  <2>. QED
    BY <1>3, <2>1, <2>2, <2>3, OnceSound, TypeSizes
<1>4. CASE sel # "IsActive"
  <2>1. audio_object_is_control(id) /\ id # STREAM_ID
    BY <1>1, <1>4, SettableCases
  <2>2. find_property_data(id) = find_control_property_data(id)
    BY <1>1, <2>1 DEF find_property_data
  <2>3. CASE control_is_volume(id)
    <3>1. find_property_data(id) = Merge(control_properties(id), volume_properties(id))
      BY <2>2, <2>3 DEF find_control_property_data
    <3>2. sel \in {"ScalarValue", "DecibelValue"}
      BY <1>4, <2>3, SettableCases
    <3>3. sel \in DOMAIN volume_properties(id) /\ sel \notin DOMAIN control_properties(id)
      BY <3>2 DEF volume_properties, control_properties
    <3>4. sel \in DOMAIN find_property_data(id)
          /\ find_property_data(id)[sel] = volume_properties(id)[sel]
      BY <3>1, <3>3 DEF Merge
    <3>5. volume_properties(id)[sel] = once(size_of.Float32, "Float32", Stored(p))
      <4>1. CASE sel = "ScalarValue"
        BY <4>1 DEF volume_properties, Stored
      <4>2. CASE sel = "DecibelValue"
        BY <4>2 DEF volume_properties, Stored
      <4>. QED
        BY <3>2, <4>1, <4>2
    <3>. QED
      BY <3>4, <3>5, OnceSound, TypeSizes
  <2>4. CASE ~control_is_volume(id)
    <3>1. find_property_data(id) = Merge(control_properties(id), mute_properties(id))
      BY <2>2, <2>4 DEF find_control_property_data
    <3>2. sel = "BooleanValue"
      BY <1>4, <2>4, SettableCases
    <3>3. sel \in DOMAIN mute_properties(id) /\ sel \notin DOMAIN control_properties(id)
      BY <3>2 DEF mute_properties, control_properties
    <3>4. sel \in DOMAIN find_property_data(id)
          /\ find_property_data(id)[sel] = mute_properties(id)[sel]
      BY <3>1, <3>3 DEF Merge
    <3>5. mute_properties(id)[sel] = once(size_of.UInt32, "UInt32", Stored(p))
      BY <3>2 DEF mute_properties, Stored
    <3>. QED
      BY <3>4, <3>5, OnceSound, TypeSizes
  <2>. QED
    BY <2>3, <2>4
<1>. QED
  BY <1>3, <1>4

\* The same in the next state.
LEMMA NextValueIsStored == (\A p \in Settable : Value(p) = <<Stored(p)>>)'
BY ValueIsStored, PTL

-----------------------------------------------------------------------------
(* Volumes *)

\* The values a caller gives clamp to squares, so that their roots are in the range.
LEMMA SqrtOfClamped ==
  ASSUME NEW v \in NormInputs
  PROVE  LET x == Clamp(v, 0, NormMax)
         IN x \in Nat /\ Sqrt(x) \in 0 .. VOL_DB_RANGE /\ Sqrt(x) * Sqrt(x) = x
<1>. DEFINE x == Clamp(v, 0, NormMax)
<1>1. \E r \in 0 .. VOL_DB_RANGE : r * r = x
  <2>1. NormMax = VOL_DB_RANGE * VOL_DB_RANGE /\ VOL_DB_RANGE \in Nat /\ NormMax \in Nat
    BY HalAssumption DEF NormMax
  <2>2. CASE v = -1
    <3>1. x = 0
      BY <2>1, <2>2 DEF Clamp
    <3>. QED
      BY <2>1, <3>1
  <2>3. CASE v = NormMax + 1
    <3>1. x = NormMax
      BY <2>1, <2>3 DEF Clamp
    <3>. QED
      BY <2>1, <3>1
  <2>4. ASSUME NEW q \in 0 .. VOL_DB_RANGE, v = q * q
        PROVE  x = q * q
    <3>1. q * q \in Nat /\ q * q <= q * VOL_DB_RANGE /\ q * VOL_DB_RANGE <= NormMax
      BY <2>1
    <3>. QED
      BY <2>1, <2>4, <3>1 DEF Clamp
  <2>. QED
    BY <2>2, <2>3, <2>4 DEF NormInputs
<1>2. Sqrt(x) \in 0 .. VOL_DB_RANGE /\ Sqrt(x) * Sqrt(x) = x
  BY <1>1 DEF Sqrt
<1>3. Sqrt(x) \in Nat
  BY <1>2, HalAssumption
<1>. QED
  BY <1>2, <1>3

\* What a setter stores comes from a decibel value, the range exceeded by one at most.
LEMMA GainOfDecibels ==
  ASSUME NEW selector \in {"ScalarValue", "DecibelValue"}, NEW v \in Inputs(selector)
  PROVE  LET db == IF selector = "ScalarValue" THEN norm_to_db(v) ELSE v
         IN db \in DbInputs /\ new_gain(selector, v) = db_to_gain(db)
<1>1. VOL_MIN_DB = 0 - VOL_DB_RANGE /\ VOL_MAX_DB = 0 /\ VOL_DB_RANGE \in Nat
  BY HalAssumption DEF VOL_MIN_DB, VOL_MAX_DB
<1>2. CASE selector = "ScalarValue"
  <2>1. v \in NormInputs
    BY <1>2 DEF Inputs
  <2>2. Sqrt(Clamp(v, 0, NormMax)) \in 0 .. VOL_DB_RANGE
    BY <2>1, SqrtOfClamped
  <2>3. norm_to_db(v) \in DbInputs
    BY <1>1, <2>2 DEF norm_to_db, DbInputs
  <2>. QED
    BY <1>2, <2>3 DEF new_gain, norm_to_gain
<1>3. CASE selector = "DecibelValue"
  BY <1>3 DEF new_gain, Inputs
<1>. QED
  BY <1>2, <1>3

LEMMA GainStored ==
  ASSUME NEW selector \in {"ScalarValue", "DecibelValue"}, NEW v \in Inputs(selector)
  PROVE  new_gain(selector, v) \in Gains
BY GainOfDecibels DEF Gains

\* gain_to_db undoes db_to_gain: the squares of different gains differ.
LEMMA GainInverse == \A db \in DbInputs : gain_to_db(db_to_gain(db)) = db
<1>. SUFFICES ASSUME NEW db \in DbInputs
              PROVE  gain_to_db(db_to_gain(db)) = db
  OBVIOUS
<1>1. DbInputs \subseteq Int
  BY HalAssumption DEF DbInputs, VOL_MIN_DB, VOL_MAX_DB
<1>2. \A d \in DbInputs : db_to_gain(d) \in Nat \ {0}
  BY GainAssumption DEF db_to_gain
<1>3. \A x, y \in Nat : x < y => x * x < y * y
  <2>. SUFFICES ASSUME NEW x \in Nat, NEW y \in Nat, x < y
                PROVE  x * x < y * y
    OBVIOUS
  <2>1. x * x <= x * y /\ x * y < y * y
    OBVIOUS
  <2>. QED
    BY <2>1
<1>4. ASSUME NEW d \in DbInputs, sq(db_to_gain(d)) = sq(db_to_gain(db))
      PROVE  d = db
  <2>1. d < db => db_to_gain(d) < db_to_gain(db)
    BY GainAssumption DEF db_to_gain
  <2>2. db < d => db_to_gain(db) < db_to_gain(d)
    BY GainAssumption DEF db_to_gain
  <2>3. /\ ~(db_to_gain(d) < db_to_gain(db)) /\ ~(db_to_gain(db) < db_to_gain(d))
    <3>. DEFINE x == db_to_gain(d)  y == db_to_gain(db)
    <3>1. x \in Nat /\ y \in Nat /\ x * x = y * y
      BY <1>2, <1>4 DEF sq
    <3>. HIDE DEF x, y
    <3>2. ~(x < y) /\ ~(y < x)
      <4>1. /\ x < y => x * x < y * y
            /\ y < x => y * y < x * x
        BY <1>3, <3>1
      <4>2. x * x \in Int /\ y * y \in Int
        BY <3>1
      <4>. QED
        BY <3>1, <4>1, <4>2
    <3>. QED
      BY <3>2 DEF x, y
  <2>. QED
    BY <1>1, <2>1, <2>2, <2>3
<1>. DEFINE P(d) == sq(db_to_gain(d)) = sq(db_to_gain(db))
<1>5. gain_to_db(db_to_gain(db)) = CHOOSE d \in DbInputs : P(d)
  <2>1. db_to_gain(db) # 0
    BY <1>2
  <2>. QED
    BY <2>1, Zenon DEF gain_to_db
<1>6. P(db) /\ \A d \in DbInputs : P(d) => d = db
  BY <1>4
<1>. HIDE DEF P
<1>. QED
  BY <1>5, <1>6

-----------------------------------------------------------------------------
(* Setters *)

\* What a setter leaves in the variables.
LEMMA SetterStores ==
  ASSUME TypeOK, NEW t \in Threads, NEW p \in Settable, NEW v \in Inputs(p[2]),
         set_property_data(t, p[1], p[2], v)
  PROVE  /\ OUTPUT_VOLUME' \in [Elements -> Gains]
         /\ OUTPUT_MUTE' \in [Elements -> BOOLEAN]
         /\ IS_OUTPUT_STREAM_ACTIVE' \in BOOLEAN
         /\ announced(p[1], p[2]) \subseteq Settable
         /\ p \in announced(p[1], p[2])
         /\ p[2] = "IsActive" => Stored(p)' = (v # 0)
         /\ p[2] = "BooleanValue" => OUTPUT_MUTE'[control_channel_index(p[1])] = (v # 0)
         /\ p[2] \in {"ScalarValue", "DecibelValue"} =>
              OUTPUT_VOLUME'[control_channel_index(p[1])] = new_gain(p[2], v)
<1>. DEFINE e == control_channel_index(p[1])
<1>1. p[2] # "IsActive" => e \in Elements
  BY SettableCases, ObjectRange
<1>2. p[1] = STREAM_ID <=> p[2] = "IsActive"
  BY SettableCases, ObjectRange DEF STREAM_ID
<1>3. OUTPUT_VOLUME' \in [Elements -> Gains]
      /\ (p[2] \in {"ScalarValue", "DecibelValue"} => OUTPUT_VOLUME'[e] = new_gain(p[2], v))
  BY <1>1, GainStored DEF TypeOK, set_property_data
<1>4. OUTPUT_MUTE' \in [Elements -> BOOLEAN]
      /\ (p[2] = "BooleanValue" => OUTPUT_MUTE'[e] = (v # 0))
  BY <1>1 DEF TypeOK, set_property_data
<1>5. IS_OUTPUT_STREAM_ACTIVE' \in BOOLEAN
      /\ (p[2] = "IsActive" => IS_OUTPUT_STREAM_ACTIVE' = (v # 0))
  BY <1>2 DEF TypeOK, set_property_data
<1>6. announced(p[1], p[2]) \subseteq Settable /\ p \in announced(p[1], p[2])
  BY SettableCases DEF announced, Settable, is_property_settable
<1>7. p[2] = "IsActive" => Stored(p)' = (v # 0)
  BY <1>5 DEF Stored
<1>. QED
  BY <1>3, <1>4, <1>5, <1>6, <1>7

\* A setter leaves alone what it does not announce.
LEMMA OthersKeep ==
  ASSUME TypeOK, NEW t \in Threads, NEW p \in Settable, NEW v \in Inputs(p[2]),
         set_property_data(t, p[1], p[2], v),
         NEW q \in Settable, q \notin announced(p[1], p[2])
  PROVE  Value(q)' = Value(q)
<1>. DEFINE e == control_channel_index(p[1])  f == control_channel_index(q[1])
<1>1. CASE q[2] = "IsActive"
  <2>1. p[1] # STREAM_ID
    BY <1>1, SettableCases, ObjectRange DEF announced, STREAM_ID
  <2>2. IS_OUTPUT_STREAM_ACTIVE' = IS_OUTPUT_STREAM_ACTIVE
    BY <2>1 DEF set_property_data
  <2>. QED
    BY <1>1, <2>2, ValueIsStored, NextValueIsStored DEF Stored
<1>2. CASE q[2] = "BooleanValue"
  <2>1. p[2] = "BooleanValue" => f # e
    BY <1>2, SettableCases, ControlsDiffer DEF announced
  <2>2. OUTPUT_MUTE'[f] = OUTPUT_MUTE[f]
    BY <2>1, SettableCases, <1>2, ObjectRange DEF set_property_data, TypeOK
  <2>. QED
    BY <1>2, <2>2, ValueIsStored, NextValueIsStored DEF Stored
<1>3. CASE q[2] \in {"ScalarValue", "DecibelValue"}
  <2>1. p[2] \in {"ScalarValue", "DecibelValue"} => f # e
    BY <1>3, SettableCases, ControlsDiffer DEF announced
  <2>2. OUTPUT_VOLUME'[f] = OUTPUT_VOLUME[f]
    BY <2>1, SettableCases, <1>3, ObjectRange DEF set_property_data, TypeOK
  <2>. QED
    BY <1>3, <2>2, ValueIsStored, NextValueIsStored
    DEF Stored, volume_control_norm_val, volume_control_db_val
<1>. QED
  BY <1>1, <1>2, <1>3, SettableCases

\* Without a setter, values stay.
LEMMA ValuesKeep ==
  ASSUME UNCHANGED settings, NEW q \in Settable
  PROVE  Value(q)' = Value(q)
BY ValueIsStored, NextValueIsStored
DEF settings, Stored, volume_control_norm_val, volume_control_db_val

-----------------------------------------------------------------------------
(* The audio server's view *)

HalInv == TypeOK /\ ViewCurrent

LEMMA InitHal == Init => HalInv
<1>. SUFFICES ASSUME Init
              PROVE  HalInv
  OBVIOUS
<1>1. 0 \in Gains /\ db_to_gain(0) \in Gains
  BY HalAssumption DEF Gains, DbInputs, VOL_MIN_DB, VOL_MAX_DB
<1>2. TypeOK
  BY <1>1 DEF Init, TypeOK
<1>. QED
  BY <1>2 DEF Init, HalInv, ViewCurrent

\* A setter keeps the types, and what it changes is about to be announced.
LEMMA SetKeeps ==
  ASSUME HalInv, NEW t \in Threads, NEW p \in Settable, NEW v \in Inputs(p[2]),
         set_property_data(t, p[1], p[2], v)
  PROVE  HalInv'
<1>. USE DEF HalInv
<1>1. pending' = [pending EXCEPT ![t] = announced(p[1], p[2])]
      /\ HOST' = HOST /\ changed' = changed /\ cache' = cache /\ sets' = sets + 1 /\ HOST
  BY DEF set_property_data
<1>2. TypeOK'
  <2>1. /\ OUTPUT_VOLUME' \in [Elements -> Gains] /\ OUTPUT_MUTE' \in [Elements -> BOOLEAN]
        /\ IS_OUTPUT_STREAM_ACTIVE' \in BOOLEAN /\ announced(p[1], p[2]) \subseteq Settable
    BY SetterStores
  <2>2. pending' \in [Threads -> SUBSET Settable]
    BY <1>1, <2>1 DEF TypeOK
  <2>3. /\ HOST' \in BOOLEAN /\ sets' \in Nat /\ changed' \in SUBSET Settable
        /\ DOMAIN cache' = Settable
    BY <1>1 DEF TypeOK
  <2>. QED
    BY <2>1, <2>2, <2>3 DEF TypeOK
<1>3. ASSUME NEW q \in Settable
      PROVE  cache'[q] = Value(q)' \/ q \in changed' \/ \E u \in Threads : q \in pending'[u]
  <2>1. CASE q \in announced(p[1], p[2])
    BY <1>1, <2>1 DEF TypeOK
  <2>2. CASE q \notin announced(p[1], p[2])
    <3>1. Value(q)' = Value(q)
      BY <2>2, OthersKeep
    <3>2. ASSUME NEW u \in Threads, q \in pending[u]
          PROVE  q \in pending'[u]
      BY <1>1, <3>2 DEF TypeOK, set_property_data
    <3>. QED
      BY <1>1, <3>1, <3>2 DEF ViewCurrent
  <2>. QED
    BY <2>1, <2>2
<1>. QED
  BY <1>2, <1>3 DEF ViewCurrent

\* The first read of everything, the callback, and the reads it causes.
LEMMA InitializeKeeps == HalInv /\ initialize => HalInv'
<1>. SUFFICES ASSUME HalInv, initialize
              PROVE  HalInv'
  OBVIOUS
<1>1. TypeOK'
  BY DEF HalInv, TypeOK, initialize, settings
<1>2. ASSUME NEW q \in Settable
      PROVE  cache'[q] = Value(q)'
  BY ValuesKeep DEF initialize
<1>. QED
  BY <1>1, <1>2 DEF HalInv, ViewCurrent

LEMMA CallbackKeeps ==
  ASSUME HalInv, NEW t \in Threads, properties_changed(t)
  PROVE  HalInv'
<1>. USE DEF HalInv
<1>1. TypeOK'
  BY DEF TypeOK, properties_changed, settings
<1>2. ASSUME HOST', NEW q \in Settable
      PROVE  cache'[q] = Value(q)' \/ q \in changed' \/ \E u \in Threads : q \in pending'[u]
  <2>1. Value(q)' = Value(q)
    BY ValuesKeep DEF properties_changed
  <2>2. HOST /\ cache' = cache /\ changed' = changed \cup pending[t]
    BY <1>2 DEF properties_changed
  <2>3. ASSUME NEW u \in Threads, u # t
        PROVE  pending'[u] = pending[u]
    BY <2>3 DEF properties_changed, TypeOK
  <2>. QED
    BY <2>1, <2>2, <2>3 DEF ViewCurrent
<1>. QED
  BY <1>1, <1>2 DEF ViewCurrent

LEMMA RefreshKeeps ==
  ASSUME HalInv, NEW p \in Settable, Refresh(p)
  PROVE  HalInv'
<1>. USE DEF HalInv
<1>1. TypeOK'
  BY DEF TypeOK, Refresh, settings
<1>2. ASSUME HOST', NEW q \in Settable
      PROVE  cache'[q] = Value(q)' \/ q \in changed' \/ \E u \in Threads : q \in pending'[u]
  <2>1. Value(q)' = Value(q)
    BY ValuesKeep DEF Refresh
  <2>2. HOST /\ cache' = [cache EXCEPT ![p] = Value(p)] /\ changed' = changed \ {p}
        /\ pending' = pending
    BY <1>2 DEF Refresh
  <2>. QED
    BY <2>1, <2>2 DEF ViewCurrent, TypeOK
<1>. QED
  BY <1>1, <1>2 DEF ViewCurrent

LEMMA StutterKeeps == HalInv /\ UNCHANGED vars => HalInv'
<1>. SUFFICES ASSUME HalInv, UNCHANGED vars
              PROVE  HalInv'
  OBVIOUS
<1>1. UNCHANGED settings /\ UNCHANGED <<HOST, pending, sets, changed, cache>>
  BY DEF vars
<1>2. TypeOK'
  BY <1>1 DEF HalInv, TypeOK, settings
<1>3. \A q \in Settable : Value(q)' = Value(q)
  BY <1>1, ValuesKeep
<1>. QED
  BY <1>1, <1>2, <1>3 DEF HalInv, ViewCurrent

\* The inductive invariant holds.
THEOREM HalInvariant == Spec => []HalInv
<1>1. HalInv /\ [Next]_vars => HalInv'
  <2>. SUFFICES ASSUME HalInv, [Next]_vars
                PROVE  HalInv'
    OBVIOUS
  <2>1. CASE initialize
    BY <2>1, InitializeKeeps
  <2>2. CASE Set
    BY <2>2, SetKeeps DEF Set
  <2>3. CASE \E t \in Threads : properties_changed(t)
    BY <2>3, CallbackKeeps
  <2>4. CASE \E p \in Settable : Refresh(p)
    BY <2>4, RefreshKeeps
  <2>5. CASE UNCHANGED vars
    BY <2>5, StutterKeeps
  <2>. QED
    BY <2>1, <2>2, <2>3, <2>4, <2>5 DEF Next
<1>. QED
  BY <1>1, InitHal, PTL DEF Spec

\* Type correctness: a setter's index is always that of an element, and only
\* settable properties are announced.
THEOREM HalTypes == Spec => []TypeOK
<1>1. HalInv => TypeOK
  BY DEF HalInv
<1>. QED
  BY <1>1, HalInvariant, PTL

\* The audio server's view of a settable property is right, or it knows that it is
\* not, or is about to be told: for any number of channels and threads.
THEOREM ViewStaysCurrent == Spec => []ViewCurrent
<1>1. HalInv => ViewCurrent
  BY DEF HalInv
<1>. QED
  BY <1>1, HalInvariant, PTL

-----------------------------------------------------------------------------
(* Reading back *)

\* The gain of a decibel value, read on the two scales.
LEMMA DecibelsReadBack ==
  ASSUME NEW db \in DbInputs
  PROVE  /\ volume_control_db_val(db_to_gain(db)) = Clamp(db, VOL_MIN_DB, VOL_MAX_DB)
         /\ volume_control_norm_val(db_to_gain(db))
              = sq(Clamp(db, VOL_MIN_DB, VOL_MAX_DB) - VOL_MIN_DB)
BY GainInverse DEF volume_control_db_val, volume_control_norm_val

\* A normalised value, converted to decibels and read on the two scales.
LEMMA ScalarReadsBack ==
  ASSUME NEW v \in NormInputs
  PROVE  LET db == norm_to_db(v)
         IN /\ Clamp(db, VOL_MIN_DB, VOL_MAX_DB) = db
            /\ sq(db - VOL_MIN_DB) = Clamp(v, 0, NormMax)
<1>. DEFINE x == Clamp(v, 0, NormMax)  r == Sqrt(x)  db == norm_to_db(v)
<1>1. r \in 0 .. VOL_DB_RANGE /\ r * r = x
  BY SqrtOfClamped
<1>2. VOL_MIN_DB = 0 - VOL_DB_RANGE /\ VOL_MAX_DB = 0 /\ VOL_DB_RANGE \in Nat
  BY HalAssumption DEF VOL_MIN_DB, VOL_MAX_DB
<1>3. db = VOL_MIN_DB + r
  BY DEF norm_to_db
<1>. HIDE DEF r, x, db
<1>4. Clamp(db, VOL_MIN_DB, VOL_MAX_DB) = db
  BY <1>1, <1>2, <1>3 DEF Clamp
<1>5. db - VOL_MIN_DB = r
  BY <1>1, <1>2, <1>3
<1>6. sq(db - VOL_MIN_DB) = r * r
  BY <1>5 DEF sq
<1>. QED
  BY <1>1, <1>4, <1>6 DEF x, db

\* What a setter stores is what is read back, clamped, on both scales whichever of them
\* was set, for any volume range, any control and any increasing powers.
THEOREM ReadsBack == Spec => SetReadsBack
<1>. DEFINE Back(p, v) ==
       CASE p[2] = "ScalarValue" ->
              /\ Value(p)' = <<Clamp(v, 0, NormMax)>>
              /\ Value(<<p[1], "DecibelValue">>)' = <<norm_to_db(v)>>
         [] p[2] = "DecibelValue" ->
              LET db == Clamp(v, VOL_MIN_DB, VOL_MAX_DB)
              IN /\ Value(p)' = <<db>>
                 /\ Value(<<p[1], "ScalarValue">>)' = <<sq(db - VOL_MIN_DB)>>
         [] OTHER -> Value(p)' = <<v # 0>>
<1>1. ASSUME TypeOK, NEW t \in Threads, NEW p \in Settable, NEW v \in Inputs(p[2]),
             set_property_data(t, p[1], p[2], v)
      PROVE  Back(p, v)
  <2>. DEFINE e == control_channel_index(p[1])
  <2>0. /\ p[2] = "IsActive" => Stored(p)' = (v # 0)
        /\ p[2] = "BooleanValue" => OUTPUT_MUTE'[e] = (v # 0)
        /\ p[2] \in {"ScalarValue", "DecibelValue"} => OUTPUT_VOLUME'[e] = new_gain(p[2], v)
    BY <1>1, SetterStores
  <2>1. CASE p[2] \in {"ScalarValue", "DecibelValue"}
    <3>. DEFINE db == IF p[2] = "ScalarValue" THEN norm_to_db(v) ELSE v
                s == <<p[1], "ScalarValue">>  d == <<p[1], "DecibelValue">>
                clamped == Clamp(db, VOL_MIN_DB, VOL_MAX_DB)
    <3>1. s \in Settable /\ d \in Settable /\ (p = s \/ p = d)
      BY <2>1, SettableCases DEF Settable, is_property_settable
    <3>2. db \in DbInputs /\ OUTPUT_VOLUME'[e] = db_to_gain(db)
      BY <2>0, <2>1, GainOfDecibels
    <3>. HIDE DEF db
    <3>3. Stored(s)' = volume_control_norm_val(OUTPUT_VOLUME'[e])
      BY DEF Stored, volume_control_norm_val, volume_control_db_val
    <3>4. Stored(d)' = volume_control_db_val(OUTPUT_VOLUME'[e])
      BY DEF Stored, volume_control_db_val
    <3>5. Stored(s)' = sq(clamped - VOL_MIN_DB) /\ Stored(d)' = clamped
      BY <3>2, <3>3, <3>4, DecibelsReadBack
    <3>6. Value(s)' = <<sq(clamped - VOL_MIN_DB)>> /\ Value(d)' = <<clamped>>
      BY <3>1, <3>5, NextValueIsStored
    <3>7. CASE p[2] = "ScalarValue"
      <4>1. v \in NormInputs /\ p = s
        BY <3>1, <3>7 DEF Inputs
      <4>2. clamped = norm_to_db(v) /\ sq(clamped - VOL_MIN_DB) = Clamp(v, 0, NormMax)
        BY <3>7, <4>1, ScalarReadsBack DEF db
      <4>. QED
        BY <3>6, <3>7, <4>1, <4>2
    <3>8. CASE p[2] = "DecibelValue"
      <4>1. p = d /\ clamped = Clamp(v, VOL_MIN_DB, VOL_MAX_DB)
        BY <3>1, <3>8 DEF db
      <4>. QED
        BY <3>6, <3>8, <4>1
    <3>. QED
      BY <2>1, <3>7, <3>8
  <2>2. CASE p[2] \notin {"ScalarValue", "DecibelValue"}
    <3>1. Stored(p)' = (v # 0)
      BY <2>0, <2>2, SettableCases DEF Stored
    <3>2. Value(p)' = <<v # 0>>
      BY <3>1, NextValueIsStored
    <3>. QED
      BY <2>2, <3>2
  <2>. QED
    BY <2>1, <2>2
<1>2. TypeOK /\ [Next]_vars =>
        [sets' # sets => \A t \in Threads, p \in Settable : \A v \in Inputs(p[2]) :
           set_property_data(t, p[1], p[2], v) => Back(p, v)]_vars
  BY <1>1
<1>. QED
  BY <1>2, HalTypes, PTL DEF Spec, SetReadsBack

-----------------------------------------------------------------------------
(* The object tree *)

\* The entries the tree is made of.
LEMMA TreeEntries ==
  /\ find_plugin_property_data["Owner"].values = <<Unknown>>
  /\ find_plugin_property_data["OwnedObjects"].values = <<DEVICE_ID>>
  /\ find_device_property_data["Owner"].values = <<PLUGIN_ID>>
  /\ find_device_property_data["OwnedObjects"].values = <<STREAM_ID>> \o controls_list
  /\ find_device_property_data["ControlList"].values = controls_list
  /\ find_device_property_data["Streams"].values = <<STREAM_ID>>
  /\ find_stream_property_data["Owner"].values = <<DEVICE_ID>>
  /\ find_stream_property_data["OwnedObjects"].values = <<>>
  /\ \A id \in Controls : /\ find_control_property_data(id)["Owner"].values = <<DEVICE_ID>>
                          /\ find_control_property_data(id)["OwnedObjects"].values = <<>>
<1>0. /\ \A size, type, v : once(size, type, v).values = <<v>>
      /\ \A size, type, s : list(size, type, s).values = s
  BY DEF once, list, PropertyData
<1>1. /\ find_plugin_property_data["Owner"].values = <<Unknown>>
      /\ find_plugin_property_data["OwnedObjects"].values = <<DEVICE_ID>>
  <2>1. /\ find_plugin_property_data["Owner"] = once(OBJECT_ID_SIZE, "UInt32", Unknown)
        /\ find_plugin_property_data["OwnedObjects"]
             = list(OBJECT_ID_SIZE * 1, "AudioObjectID", <<DEVICE_ID>>)
    BY DEF find_plugin_property_data
  <2>. QED
    BY <1>0, <2>1
<1>2. /\ find_stream_property_data["Owner"].values = <<DEVICE_ID>>
      /\ find_stream_property_data["OwnedObjects"].values = <<>>
  <2>1. /\ find_stream_property_data["Owner"] = once(OBJECT_ID_SIZE, "AudioObjectID", DEVICE_ID)
        /\ find_stream_property_data["OwnedObjects"]
             = list(OBJECT_ID_SIZE * 0, "AudioObjectID", <<>>)
    BY DEF find_stream_property_data
  <2>. QED
    BY <1>0, <2>1
<1>3. ASSUME NEW id \in Controls, NEW s \in {"Owner", "OwnedObjects"}
      PROVE  find_control_property_data(id)[s] = control_properties(id)[s]
  <2>1. s \in DOMAIN control_properties(id)
    BY DEF control_properties
  <2>. QED
    BY <2>1 DEF find_control_property_data, Merge
<1>4. ASSUME NEW s \in {"Owner", "OwnedObjects", "ControlList"}
      PROVE  find_device_property_data[s] = device_object_properties[s]
  <2>1. s \in DOMAIN device_object_properties /\ s \notin DOMAIN device_scoped_properties
    BY DEF device_object_properties, device_scoped_properties
  <2>. QED
    BY <2>1 DEF find_device_property_data, Merge
<1>5. find_device_property_data["Streams"] = device_io_properties["Streams"]
  <2>1. /\ "Streams" \in DOMAIN device_io_properties
        /\ "Streams" \notin DOMAIN device_object_properties
        /\ "Streams" \notin DOMAIN device_scoped_properties
    BY DEF device_io_properties, device_object_properties, device_scoped_properties
  <2>. QED
    BY <2>1 DEF find_device_property_data, Merge
<1>6. \A id \in Controls : /\ control_properties(id)["Owner"].values = <<DEVICE_ID>>
                           /\ control_properties(id)["OwnedObjects"].values = <<>>
  <2>. SUFFICES ASSUME NEW id \in Controls
                PROVE  /\ control_properties(id)["Owner"].values = <<DEVICE_ID>>
                       /\ control_properties(id)["OwnedObjects"].values = <<>>
    OBVIOUS
  <2>1. /\ control_properties(id)["Owner"] = once(OBJECT_ID_SIZE, "AudioObjectID", DEVICE_ID)
        /\ control_properties(id)["OwnedObjects"]
             = list(OBJECT_ID_SIZE * 0, "AudioObjectID", <<>>)
    BY DEF control_properties
  <2>. QED
    BY <1>0, <2>1
<1>7. /\ device_object_properties["Owner"].values = <<PLUGIN_ID>>
      /\ device_object_properties["OwnedObjects"].values = <<STREAM_ID>> \o controls_list
      /\ device_object_properties["ControlList"].values = controls_list
  <2>. DEFINE owned == <<STREAM_ID>> \o controls_list
  <2>1. /\ device_object_properties["Owner"] = once(OBJECT_ID_SIZE, "AudioObjectID", PLUGIN_ID)
        /\ device_object_properties["OwnedObjects"]
             = list(N_DEVICE_OWNED_OBJS * OBJECT_ID_SIZE, "AudioObjectID", owned)
        /\ device_object_properties["ControlList"]
             = list(N_CONTROLS * OBJECT_ID_SIZE, "AudioObjectID", controls_list)
    BY DEF device_object_properties
  <2>. HIDE DEF owned
  <2>2. device_object_properties["Owner"].values = <<PLUGIN_ID>>
    BY <1>0, <2>1
  <2>3. device_object_properties["OwnedObjects"].values = owned
    BY <1>0, <2>1
  <2>4. device_object_properties["ControlList"].values = controls_list
    BY <1>0, <2>1
  <2>. QED
    BY <2>2, <2>3, <2>4 DEF owned
<1>8. device_io_properties["Streams"].values = <<STREAM_ID>>
  <2>1. device_io_properties["Streams"]
          = list(size_of.AudioObjectID * 1, "AudioObjectID", <<STREAM_ID>>)
    BY DEF device_io_properties
  <2>. QED
    BY <1>0, <2>1
<1>. QED
  BY <1>1, <1>2, <1>3, <1>4, <1>5, <1>6, <1>7, <1>8

\* Every object has the four properties of any object.
LEMMA CommonProperties ==
  \A id \in Objects : \A s \in {"Owner", "OwnedObjects", "Class", "BaseClass"} :
    has_property(id, s, "global", 0)
<1>. SUFFICES ASSUME NEW id \in Objects,
                     NEW s \in {"Owner", "OwnedObjects", "Class", "BaseClass"}
              PROVE  has_property(id, s, "global", 0)
  OBVIOUS
<1>1. s # "ElementName" /\ s \notin DOMAIN device_scoped_properties
  BY DEF device_scoped_properties
<1>2. s \in DOMAIN find_property_data(id)
  <2>1. s \in DOMAIN find_plugin_property_data
    BY DEF find_plugin_property_data
  <2>2. s \in DOMAIN find_device_property_data
    BY DEF find_device_property_data, Merge, device_object_properties
  <2>3. s \in DOMAIN find_stream_property_data
    BY DEF find_stream_property_data
  <2>4. s \in DOMAIN find_control_property_data(id)
    <3>1. /\ s \in {"Owner", "OwnedObjects"} => s \in DOMAIN control_properties(id)
          /\ s \in {"Class", "BaseClass"} => s \in DOMAIN volume_properties(id)
          /\ s \in {"Class", "BaseClass"} => s \in DOMAIN mute_properties(id)
      BY DEF control_properties, volume_properties, mute_properties
    <3>. QED
      BY <3>1 DEF find_control_property_data, Merge
  <2>. QED
    BY <2>1, <2>2, <2>3, <2>4, Tables, ObjectKinds
<1>. QED
  BY <1>1, <1>2 DEF has_property

\* The owner of each object, as it is read.
OwnerOf(id) == IF id = PLUGIN_ID THEN Unknown ELSE IF id = DEVICE_ID THEN PLUGIN_ID ELSE DEVICE_ID

LEMMA OwnersRead == \A id \in Objects : Read(id, "Owner", "global") = <<OwnerOf(id)>>
<1>. SUFFICES ASSUME NEW id \in Objects
              PROVE  Read(id, "Owner", "global") = <<OwnerOf(id)>>
  OBVIOUS
<1>1. Read(id, "Owner", "global") = find_property_data(id)["Owner"].values
  <2>1. "Owner" \in DOMAIN find_property_data(id) /\ ~NoInput(id, "Owner", "global")
    BY CommonProperties DEF has_property, NoInput
  <2>. QED
    BY <2>1, ReadsValues
<1>2. find_property_data(id)["Owner"].values = <<OwnerOf(id)>>
  <2>1. PLUGIN_ID # DEVICE_ID /\ PLUGIN_ID # STREAM_ID /\ DEVICE_ID # STREAM_ID
    BY DEF PLUGIN_ID, DEVICE_ID, STREAM_ID
  <2>2. CASE id = PLUGIN_ID
    BY <2>2, Tables, TreeEntries DEF OwnerOf
  <2>3. CASE id = DEVICE_ID
    BY <2>1, <2>3, Tables, TreeEntries DEF OwnerOf
  <2>4. CASE id = STREAM_ID
    BY <2>1, <2>4, Tables, TreeEntries DEF OwnerOf
  <2>5. CASE id \in Controls
    BY <2>5, ObjectKinds, Tables, TreeEntries DEF OwnerOf
  <2>. QED
    BY <2>2, <2>3, <2>4, <2>5, ObjectKinds
<1>. QED
  BY <1>1, <1>2

\* The lists of the tree, as they are read.
LEMMA ListsRead ==
  /\ Read(PLUGIN_ID, "OwnedObjects", "global") = <<DEVICE_ID>>
  /\ Read(DEVICE_ID, "OwnedObjects", "global") = <<STREAM_ID>> \o controls_list
  /\ Read(DEVICE_ID, "Streams", "output") = <<STREAM_ID>>
  /\ Read(DEVICE_ID, "ControlList", "output") = controls_list
  /\ Read(STREAM_ID, "OwnedObjects", "global") = <<>>
  /\ \A id \in Controls : Read(id, "OwnedObjects", "global") = <<>>
<1>1. PLUGIN_ID \in Objects /\ DEVICE_ID \in Objects /\ STREAM_ID \in Objects
        /\ Controls \subseteq Objects
  BY ObjectKinds
<1>2. ASSUME NEW id \in Objects
      PROVE  Read(id, "OwnedObjects", "global") = find_property_data(id)["OwnedObjects"].values
  <2>1. "OwnedObjects" \in DOMAIN find_property_data(id)
          /\ ~NoInput(id, "OwnedObjects", "global")
    BY CommonProperties DEF has_property, NoInput
  <2>. QED
    BY <2>1, ReadsValues
<1>3. ASSUME NEW sel \in {"Streams", "ControlList"}
      PROVE  Read(DEVICE_ID, sel, "output") = find_property_data(DEVICE_ID)[sel].values
  <2>1. sel \in DOMAIN find_device_property_data
    BY DEF find_device_property_data, Merge, device_object_properties, device_io_properties
  <2>2. sel \in DOMAIN find_property_data(DEVICE_ID) /\ ~NoInput(DEVICE_ID, sel, "output")
    BY <2>1, Tables DEF NoInput
  <2>. QED
    BY <1>1, <2>2, ReadsValues
<1>. QED
  BY <1>1, <1>2, <1>3, Tables, TreeEntries

\* The objects an object owns: the plug-in owns the device, the device the rest.
LEMMA OwnedAreOwners ==
  ASSUME NEW id \in Objects
  PROVE  LET owned == Read(id, "OwnedObjects", "global")
         IN {owned[i] : i \in DOMAIN owned} = {o \in Objects : <<OwnerOf(o)>> = <<id>>}
<1>. DEFINE owned == Read(id, "OwnedObjects", "global")
            items == {owned[i] : i \in DOMAIN owned}
<1>1. {o \in Objects : <<OwnerOf(o)>> = <<id>>} = {o \in Objects : OwnerOf(o) = id}
  OBVIOUS
<1>2. PLUGIN_ID = 1 /\ DEVICE_ID = 2 /\ STREAM_ID = 3 /\ Unknown = 0
  BY DEF PLUGIN_ID, DEVICE_ID, STREAM_ID, Unknown
<1>3. Objects = {1, 2, 3} \cup Controls /\ Controls = 4 .. N_CONTROLS + 3 /\ N_CONTROLS \in Nat
  BY <1>2, ObjectKinds, ObjectRange
<1>4. CASE id = PLUGIN_ID
  <2>1. owned = << 2 >>
    BY <1>2, <1>4, ListsRead
  <2>2. items = {2}
    BY <2>1
  <2>3. {o \in Objects : OwnerOf(o) = id} = {2}
    BY <1>2, <1>3, <1>4 DEF OwnerOf
  <2>. QED
    BY <1>1, <2>2, <2>3
<1>5. CASE id = DEVICE_ID
  <2>1. owned = << 3 >> \o controls_list
    BY <1>2, <1>5, ListsRead
  <2>2. /\ DOMAIN owned = 1 .. N_CONTROLS + 1
        /\ \A i \in 1 .. N_CONTROLS + 1 : owned[i] = 2 + i
    <3>. HIDE DEF owned
    <3>1. /\ << 3 >> \in Seq(Nat) /\ Len(<< 3 >>) = 1 /\ << 3 >>[1] = 3
          /\ controls_list \in Seq(Nat) /\ Len(controls_list) = N_CONTROLS
      BY ControlsList
    <3>2. owned \in Seq(Nat) /\ Len(owned) = 1 + N_CONTROLS
      BY <2>1, <3>1
    <3>3. ASSUME NEW i \in 1 .. N_CONTROLS + 1
          PROVE  owned[i] = 2 + i
      <4>1. CASE i = 1
        BY <2>1, <3>1, <4>1
      <4>2. CASE i # 1
        <5>1. i - 1 \in 1 .. N_CONTROLS
          BY <1>3, <4>2
        <5>2. owned[i] = controls_list[i - 1]
          BY <1>3, <2>1, <3>1, <4>2
        <5>. QED
          BY <1>3, <5>1, <5>2, ControlsList
      <4>. QED
        BY <4>1, <4>2
    <3>. QED
      BY <1>3, <3>2, <3>3
  <2>3. items = 3 .. N_CONTROLS + 3
    <3>. HIDE DEF owned
    <3>1. ASSUME NEW o \in 3 .. N_CONTROLS + 3
          PROVE  \E i \in DOMAIN owned : owned[i] = o
      <4>1. o - 2 \in 1 .. N_CONTROLS + 1 /\ 2 + (o - 2) = o
        BY <1>3
      <4>. QED
        BY <2>2, <4>1
    <3>2. \A i \in DOMAIN owned : owned[i] \in 3 .. N_CONTROLS + 3
      BY <1>3, <2>2
    <3>. QED
      BY <3>1, <3>2
  <2>4. {o \in Objects : OwnerOf(o) = id} = 3 .. N_CONTROLS + 3
    <3>1. Objects = 1 .. N_CONTROLS + 3
      BY <1>3
    <3>2. \A o \in Objects : OwnerOf(o) = id <=> o >= 3
      BY <1>2, <1>5, <3>1 DEF OwnerOf
    <3>. QED
      BY <1>3, <3>1, <3>2
  <2>. QED
    BY <1>1, <2>3, <2>4
<1>6. CASE id \in {STREAM_ID} \cup Controls
  <2>1. owned = <<>>
    BY <1>6, ListsRead
  <2>2. items = {}
    BY <2>1
  <2>3. {o \in Objects : OwnerOf(o) = id} = {}
    BY <1>2, <1>3, <1>6 DEF OwnerOf
  <2>. QED
    BY <1>1, <2>2, <2>3
<1>. QED
  BY <1>4, <1>5, <1>6, ObjectKinds

\* The controls of an element: the mute control 4 + 2e and the volume control 5 + 2e.
LEMMA ControlsCover ==
  /\ \A id \in Controls : control_channel_index(id) \in Elements
  /\ \A kind \in BOOLEAN : \A e \in Elements : \E id \in Controls : \A d \in Controls :
       (control_is_volume(d) = kind /\ control_channel_index(d) = e) <=> d = id
<1>1. Controls = 4 .. 2 * N_CHANNELS + 5 /\ N_CHANNELS \in Nat
  BY ObjectKinds, HalAssumption DEF N_CONTROLS
<1>2. ASSUME NEW d \in Controls
      PROVE  /\ d \in Int
             /\ control_channel_index(d) = (d - 4) \div 2
             /\ control_is_volume(d) <=> d % 2 = 1
             /\ control_is_volume(d) \in BOOLEAN
  BY <1>1 DEF control_channel_index, control_is_volume, FIRST_CTRL_ID
<1>3. ASSUME NEW id \in Controls
      PROVE  control_channel_index(id) \in Elements
  BY <1>1, <1>2 DEF Elements
<1>4. ASSUME NEW kind \in BOOLEAN, NEW e \in Elements
      PROVE  \E id \in Controls : \A d \in Controls :
               (control_is_volume(d) = kind /\ control_channel_index(d) = e) <=> d = id
  <2>. DEFINE c == IF kind THEN 5 + 2 * e ELSE 4 + 2 * e
  <2>1. e \in 0 .. N_CHANNELS
    BY DEF Elements
  <2>2. c \in Controls
    BY <1>1, <2>1
  <2>3. ASSUME NEW d \in Controls
        PROVE  (control_is_volume(d) = kind /\ control_channel_index(d) = e) <=> d = c
    <3>1. (control_is_volume(d) = kind) <=> ((d % 2 = 1) <=> kind)
      BY <1>2
    <3>2. (((d % 2 = 1) <=> kind) /\ (d - 4) \div 2 = e) <=> d = c
      <4>1. CASE kind
        BY <1>1, <2>1, <4>1
      <4>2. CASE ~kind
        BY <1>1, <2>1, <4>2
      <4>. QED
        BY <4>1, <4>2
    <3>. QED
      BY <1>2, <3>1, <3>2
  <2>. QED
    BY <2>2, <2>3
<1>. QED
  BY <1>3, <1>4

\* The tree read down and the tree read up agree in every state, and the controls
\* index exactly the elements of the two arrays (find_property_data, the setters).
THEOREM Tree == Spec => []ObjectTree
<1>1. ASSUME TypeOK
      PROVE  ObjectTree
  <2>1. ASSUME NEW id \in Objects
        PROVE  LET owner == [o \in Objects |-> Read(o, "Owner", "global")]
                   owned == Read(id, "OwnedObjects", "global")
               IN {owned[i] : i \in DOMAIN owned} = {o \in Objects : owner[o] = <<id>>}
    <3>1. \A o \in Objects : Read(o, "Owner", "global") = <<OwnerOf(o)>>
      BY OwnersRead
    <3>2. {o \in Objects : [p \in Objects |-> Read(p, "Owner", "global")][o] = <<id>>}
            = {o \in Objects : <<OwnerOf(o)>> = <<id>>}
      BY <3>1
    <3>. QED
      BY <3>2, OwnedAreOwners
  <2>2. Read(DEVICE_ID, "OwnedObjects", "global")
          = Read(DEVICE_ID, "Streams", "output") \o Read(DEVICE_ID, "ControlList", "output")
    BY ListsRead, Zenon
  <2>3. DOMAIN OUTPUT_VOLUME = Elements /\ DOMAIN OUTPUT_MUTE = Elements
    BY <1>1 DEF TypeOK
  <2>4. \A kind : DOMAIN (IF kind THEN OUTPUT_VOLUME ELSE OUTPUT_MUTE) = Elements
    BY <2>3
  <2>. QED
    BY <2>1, <2>2, <2>4, CommonProperties, ControlsCover DEF ObjectTree
<1>. QED
  BY <1>1, HalTypes, PTL

-----------------------------------------------------------------------------
(* Sizes *)

\* The bytes written to a buffer of data_size bytes.
Written(id, sel, scope, data_size) ==
  LET q == find_property_data(id)[sel]
  IN q.item_size * Len(found_property_data(q, id, sel, scope, data_size))

\* For a buffer of any size: one that is large enough receives exactly the bytes that
\* get_property_data_size has declared, except that nothing is written for the device's
\* OwnedObjects and Streams in the input scope; a smaller one receives nothing, so that
\* none is written past its end (get_property_data, write_get_size).
THEOREM AnyBuffer ==
  ASSUME NEW id \in Objects, NEW sel \in DOMAIN find_property_data(id), NEW scope \in Scopes,
         NEW data_size \in Nat
  PROVE  LET declared == get_property_data_size(id, sel)
         IN /\ declared \in Nat
            /\ Written(id, sel, scope, data_size)
                 = IF data_size >= declared /\ ~NoInput(id, sel, scope) THEN declared ELSE 0
            /\ Written(id, sel, scope, data_size) <= data_size
<1>. DEFINE q == find_property_data(id)[sel]
            items == found_property_data(q, id, sel, scope, data_size)
<1>1. Sound(q)
  BY EveryPropertySound DEF AllSound
<1>2. get_property_data_size(id, sel) = q.data_size
      /\ Written(id, sel, scope, data_size) = q.item_size * Len(items)
  BY DEF get_property_data_size, Written
<1>3. items = IF accepts(q, data_size) THEN write_data(q, id, sel, scope, data_size) ELSE <<>>
  BY DEF found_property_data
<1>. HIDE DEF q, items
<1>4. /\ q.item_size \in Nat /\ q.data_size = q.item_size * Len(q.values)
      /\ Len(q.values) \in Nat
  BY <1>1 DEF Sound
<1>5. q.data_size \in Nat
  BY <1>4
<1>6. CASE accepts(q, data_size) /\ ~NoInput(id, sel, scope)
  <2>1. items = q.values
    BY <1>1, <1>3, <1>6, WholeProperty
  <2>2. q.item_size * Len(items) = q.data_size /\ data_size >= q.data_size
    BY <1>4, <1>6, <2>1 DEF accepts
  <2>. QED
    BY <1>2, <1>5, <1>6, <2>2
<1>7. CASE ~(accepts(q, data_size) /\ ~NoInput(id, sel, scope))
  <2>1. items = <<>>
    BY <1>3, <1>7 DEF write_data
  <2>2. q.item_size * Len(items) = 0
    BY <1>4, <2>1
  <2>3. ~(data_size >= q.data_size /\ ~NoInput(id, sel, scope))
    BY <1>7 DEF accepts
  <2>. QED
    BY <1>2, <1>5, <2>2, <2>3
<1>. QED
  BY <1>6, <1>7

\* The declared size of every property is the number of bytes written for it, in every
\* scope and in every state, but for the two lists of the device's input scope.
THEOREM Sizes == Spec => []SizesFitData
<1>1. SizesFitData
  <2>. SUFFICES ASSUME NEW id \in Objects, NEW sel \in DOMAIN find_property_data(id),
                       NEW scope \in Scopes
                PROVE  LET q == find_property_data(id)[sel]
                       IN /\ Written(id, sel, scope, q.data_size)
                               = IF NoInput(id, sel, scope) THEN 0 ELSE q.data_size
                          /\ \A data_size \in {0, q.data_size \div 2,
                                                q.data_size + q.item_size + 1} :
                               Written(id, sel, scope, data_size) <= data_size
    BY DEF SizesFitData, Written
  <2>. DEFINE q == find_property_data(id)[sel]
  <2>1. q.data_size \in Nat /\ q.item_size \in Nat
    <3>1. Sound(q)
      BY EveryPropertySound DEF AllSound
    <3>. HIDE DEF q
    <3>2. /\ q.item_size \in Nat /\ q.data_size = q.item_size * Len(q.values)
          /\ Len(q.values) \in Nat
      BY <3>1 DEF Sound
    <3>. QED
      BY <3>2
  <2>2. get_property_data_size(id, sel) = q.data_size
    BY DEF get_property_data_size
  <2>. HIDE DEF q
  <2>3. \A data_size \in {0, q.data_size \div 2, q.data_size + q.item_size + 1} : data_size \in Nat
    BY <2>1
  <2>4. \A data_size \in {0, q.data_size \div 2, q.data_size + q.item_size + 1} :
          Written(id, sel, scope, data_size) <= data_size
    BY <2>3, AnyBuffer
  <2>5. Written(id, sel, scope, q.data_size)
          = IF NoInput(id, sel, scope) THEN 0 ELSE q.data_size
    BY <2>1, <2>2, AnyBuffer
  <2>. QED
    BY <2>4, <2>5 DEF q
<1>. QED
  BY <1>1, PTL

=============================================================================
