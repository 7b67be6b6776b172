# TLA+ models of protojsonx

protojsonx is a Go library that encodes protobuf messages to protojson and
decodes them from it, faster than `google.golang.org/protobuf/encoding/protojson`
and compatible with it. This directory holds TLA+ modules that model its logic,
TLC configurations that check them on small instances, and proofs checked by
TLAPS. All line numbers are those of the Go source in this repository.

Run a check with `tlc -config TableCacheSafety.cfg MCTableCache.tla`, a proof
with `tlapm TableCacheProofs.tla`. The modules with proofs are
`TableCacheProofs`, `TableMarshalProofs`, `EncoderPoolProofs`,
`TableUnmarshalProofs`, `CodegenObjectProofs`, `MapObjectProofs`,
`NestedInputProofs` and `ScalarProofs`. `PROJECT.json` lists every run with its properties, the code
lines each definition stands for, the hazards and the theorems.

## 1. The system

| part | code | state | operations |
|---|---|---|---|
| table cache and compiler | `protojsonx.go` | `tableCache` (Go type -> table) under `cacheMutex`; per table: fields, flags, `done`, the `ready` channel | `getTable`, `compileTable`, `compileTableForType`, `wait`, `readyNow` |
| table decoder | `unmarshal.go` | input cursor with depth; per object: seen mask or map, oneof tracker, seen extensions, position hint; the target message | `Unmarshal`, `unmarshalFrom`, `unmarshalKnownField`, maps, lists, Any and the other well-known types, `skipValue`, number and string tokens |
| table encoder | `marshal.go` | pooled output buffer | `Marshal`, `marshalTo`, `marshalAny`, `marshalMap`, reflection for oneofs and extensions |
| generated-code runtime | `protojsonxgen/runtime.go` | fallback functions; encoder pool; decoder cursor with `Mark` and `Reset` | `NextObjectKey`, `MatchFast`, token readers, timestamp and duration arithmetic |
| code generator | `cmd/protoc-gen-go-protojsonx/main.go` | none | writes a decoder with a fast pass in declaration order and a slow pass, and an encoder |
| dispatch | `protojsonxgen.go`, `Marshal`, `Unmarshal` | none | generated method, then table, then `protojson`; generated code comes back through the registered fallbacks |
| codecs | `protojsonxgrpc`, `protojsonxconnect` | none | adapters of `Marshal` and `Unmarshal` |
| conformance runner | `internal/protojsonx-conformance` | a pipe | feeds the external conformance suite |

How they interact. `Marshal` and `Unmarshal` first look for a generated method
of the message. Without one they ask the table cache for the table of the
message's Go type, which may compile it, wait for another goroutine that
compiles it, or find it finished. With the table in hand they walk the message;
a nested message field carries its own table and a flag that says whether it has
to be waited for. A message reached through reflection (oneof member, map value,
extension, Any payload) starts again at `Marshal`'s dispatch or at `getTable`. A
table that could not be compiled sends the whole message to `protojson`.

What is hard. The cache is the only part with shared mutable state: tables are
published while other goroutines hold pointers to them, the `done` flag is read
without the lock, and message types refer to each other in cycles. The decoders
are sequential, but their result must not depend on the order of keys, on the
name variant a key uses, on what the target held before, or on which of several
strategies (hint or map, mask or map, fast or slow pass) reads the document.
Numbers, timestamps and depth have exact bounds. Buffers are pooled and keys
alias the input. Nothing is persisted and there is no network, so crashes and
lost messages do not arise.

Properties that make each part correct:

* cache: one table per type; one compile call per table; nobody reads an
  unfinished table or waits for ever; a published table does not change; the
  table given out is the one of the type that was asked for;
* decoders: exactly the legal documents are accepted, and the resulting message
  is a function of the document;
* encoder: a result never shares memory with a pooled buffer, a buffer is put
  back at most once; an encoded message decodes to itself;
* runtime arithmetic: conversions agree with their definition on every value in
  range and reject the rest;
* dispatch: every message reaches an implementation, and the fallbacks do not
  call each other for ever.

## 2. Modules

| module | contents |
|---|---|
| `TableRegistry` | abstract: each type is compiled once into a plan, each request is served a whole plan |
| `TableCache` | `getTable`, `compileTable`, `compileTableForType` and their users, by several goroutines; implements `TableRegistry` |
| `TableCacheProofs` | the inductive invariant of `TableCache`, the theorems, and that it implements the safety part of `TableRegistry` |
| `MessageObject` | reference: which sequences of object members are legal for a schema and what message they mean |
| `TableUnmarshal` | `unmarshalFrom` and `unmarshalField` reading such a sequence into a target |
| `TableUnmarshalProofs` | proofs that acceptance, rejection and result are those of `MessageObject` |
| `CodegenObject` | generated code: the encoder of a message and the two passes of its decoder, compared with `MessageObject` |
| `CodegenObjectProofs` | proofs that the two passes read what the document means, refuse mistakes only, and read back what the encoder writes |
| `NestedInput` | both decoders on nested objects and arrays: cursor, depth, rewind, look-ahead, raw values, Any, dispatch and fallbacks |
| `NestedInputProofs` | proofs that the counter is the nesting and the recursion is bounded |
| `NestedValue` | reference: trees of values, their tokens, and which of them the decoders may accept |
| `MapObject` | a map field, read and written in the four ways the code has |
| `MapObjectProofs` | proofs that the map is that of the members, and the text that of the map |
| `KnownValue` | the well-known types with a JSON form of their own, read in every kind of place and written |
| `MessageText` | reference: the text of a message |
| `TableMarshal` | `marshalTo` and everything below it, compared with `MessageText` |
| `TableMarshalProofs` | proofs that the encoder writes the text of `MessageText`, fails only where there is none, and that the decoder reads it back |
| `RoundTrip` | `TableMarshal` composed with `TableUnmarshal` |
| `EncoderPool` | the pools of output buffers, used by several goroutines |
| `EncoderPoolProofs` | the inductive invariant of `EncoderPool` and the theorems |
| `IntegerToken` | the integer reads: accumulation with overflow tests, rescan, `strconv` |
| `DurationText` | the two writers and two parsers of a Duration |
| `CivilTime` | the day arithmetic of a Timestamp, compared with a calendar |
| `ScalarProofs` | proofs that integers are read as written and only JSON numbers accepted, that dates are counted right and only real ones accepted, that durations are read as their amount and survive being written |
| `DecimalDigits` | decimal digits, for integers and durations |

Each `MC` module instantiates the module it is named after: `MCTableCache`,
`MCTableUnmarshal`, `MCCodegenObject`, `MCNestedInput`, `MCMapObject`,
`MCKnownValue`, `MCRoundTrip`, `MCEncoderPool`. `MCScalars` puts `IntegerToken`
and `DurationText` into one specification whose behaviours are about one of them
each; the properties it checks are those of the two modules. In the same way
`MCKnownValue` has the calendar of `CivilTime` beside `KnownValue`, to which a
Timestamp is a scalar.

Compositions: `TableCache` implements `TableRegistry`; `RoundTrip` runs the
encoder and then the decoder on what it wrote; `NestedInput` has generated
decoder, table decoder and dispatch in one machine. The modules about one object
(`TableUnmarshal`, `CodegenObject`, `MapObject`, `KnownValue`) take nested values
as tokens or small trees, `NestedInput` takes values apart and leaves the message
alone.

### TableCache

| variable | code |
|---|---|
| `cache` | `tableCache`, 0 for no entry |
| `tables` | the `MessageTable` objects in order of allocation; a pointer is an index |
| `mutex` | the goroutine in one of the publishing sections of `cacheMutex` |
| `pc` | where a goroutine is in `getTable`, `compileTable` or the walk |
| `msg`, `held` | the message at hand and the local `table` |
| `frames` | the nested `compileTable` calls of a goroutine, each with the table it will fill and the fields it has so far |
| `depth` | how many nested messages the call may still walk into (a bound) |

Atomicity. A section of `cacheMutex` that only looks at or changes the map is one
step: nobody can see it half done. The publishing sections (216-228, 607-626)
are four steps, since `done` is loaded and the table is read without the lock:
copy the fields, copy the flags, `done.Store(true)`, `close(ready)` with the
unlock. `readyNow` is outside the lock and a step of its own. A reader loads
`done` and then looks at the channel; `done` is set first, so the pair is one
instant. Go's atomics order the copies before `done` and the loads after it,
which is what a step per write expresses.

`Nested` is the list of message fields `compileTable` descends into, up to the
first shape it does not support; which shapes those are is the constant
`Fallback`. `compileTable` has no error of its own, it passes on the `err` of a
nested table, so `err` is always nil and is left out.

The walk (`Descend`, `Reenter`, `Return`) stands for both `marshal.go` and
`unmarshal.go`: a nested field waits only when `msgNeedsWait` is set
(unmarshal.go:1561, marshal.go:741), and other messages go through `getTable`.

### MessageObject and TableUnmarshal

`MessageObject` has no steps. A document is a sequence of members, each a key
and a token that stands for what the value is to the field: `null`, a default
(0, "", false, empty), another value, an enum name that does not exist, or
something the field cannot read. `Legal` says which documents are accepted,
`Meaning` which message an accepted one stands for.

`TableUnmarshal` reads the members one at a time, and keeps what it read in
`doc` for the comparison.

| variable | code |
|---|---|
| `width` | 64, the bits of the seen mask and of the oneof tracker; smaller in the small instances |
| `target`, `exts` | fields and extensions of the message |
| `seen` | the mask, or the map of the wide path |
| `seenOneofs`, `seenExts`, `nextIdx` | as in the code (`nextIdx` counted from 1) |

`Begin` is the start of `unmarshalFrom` with the reset of the wide path;
`ReadExtension`, `ReadUnknown`, `ReadField` and `RejectField` are the body of
its loop, one per exit; `EndObject` is the end with `clearMissing`. The narrow
and the wide loop differ in the hint (`Hinted`), the marks (`FieldMark`) and
where they clear, and share the actions. A bit past the mask is no bit (`Bit`),
so a wrong choice of path would show.

### CodegenObject

The code the generator writes for a message with a nested one (main.go:59-886).
A member of the input is revealed when the decoder first looks at it, so that
inputs which differ only after the point of a refusal are one behaviour.

| variable | code |
|---|---|
| `stack` | the message and the nested one being read: pass, position of the input, next field of the fast pass, fields of the message, `seen` marks and oneof marks |
| `doc`, `closed` | the input as far as it is known |
| `source`, `message` | whether the input is any document, or what the encoder wrote for a message |

`Peek` is the choice of a first pass; `FastField`, `FastMiss`, `FastEnd`,
`FastDone` are `MatchFast` and `TryEndObject` in `unmarshalProtoJSONXFast`;
`Rewind` is `Reset` with a fresh message; `SlowField`, `SlowUnknown`, `SlowEnd`
are the loop of `unmarshalProtoJSONXFrom`. `StoreNull`, `StoreScalar`,
`StoreList` and `EnterMessage` are the code of one field, which both passes
share. The meaning of the input is that of `MessageObject`, for the outer and for
the nested object. `Encoded` is the encoder: its statements are in the order of the
fields, so what it writes is the shown fields in that order (`Order`, `Written`).

### NestedInput

Input is a sequence of tokens; the messages have three fields, one for each way
a nested message is reached: `a` (same package, decoded by a call), `far`
(another package, read as raw value and handed to `UnmarshalWithOptions`), `any`.

| variable | code |
|---|---|
| `d` | the decoder at work: `off`, `depth`, and the end of its data |
| `stack` | the calls in progress, with the decoder each came with (`Mark`, the original of `findTypeURL`'s copy, the caller of a hand-over) |
| `far`, `registered` | what the program links: whether `far`'s message has generated code, whether the fallbacks are registered |
| `tree`, `doc` | the value the input stands for if it is well formed, and the input |

`NestedInput` knows inputs only as pairs of a tree and tokens (`Inputs`); only
`NestedValue` builds trees and says what of them is legal, by recursion, for the
property `JustTheLegal`.

There is an action per call of the runtime: `BeginMessage`, `EndMessage` and the
loops (`SlowMember`, `TableMember`, `SkipMember`, `SkipElement`), the fast pass
(`FastField`, `FastEnd`, `Rewind`), `Peek` (`PeekObjectFieldName`), `Skip`,
`ReadRaw` with `HandOver` and `Finish` (`UnmarshalField`, `Unmarshal` up to the
test for trailing data), `Look`, `FindType`, `TypeFound`, `NodeMember`,
`WrappedMember` (`unmarshalAny`), and the dispatch `Unmarshal` and `Forward`.
Which messages have the mark `ProtoJSONXFastPath` (`Marked`) is what keeps
`Unmarshal` and the forwarding methods from calling each other for ever.

### MapObject

`way` is one of the four: generated code for string maps, `ReadMap` of the
runtime, `TypeMapStringString` and `unmarshalMap` of the table decoder. `entries`
is the map; an entry remembers whether its key has the bytes of the input, which
`Reuse` (the caller) may change after the call. `Begin` clears the target's map,
`ReadMember` is the callback for one member, `Write` sorts what Go's iteration
gives in any order. Keys are texts from a small set with two spellings of one
key (an escape, a leading zero).

### KnownValue

`place` says where the value is: the whole document, a field, an extension, a
member of a oneof or an item of a list; null and the old value are treated in
code of their own in each. `ReadNull` is that code, `ReadPlain`, `ReadMask`,
`ReadObject`, `ReadArray` and `ReadAnyValue` the start of a value by type;
`ReadLeaf`, `ReadNested`, `End` are `unmarshalStruct`, `unmarshalListValue` and
`unmarshalValue` calling each other, with `stack` for their recursion;
`ReadMember` and `EndMembers` the object form of a wrapper, and Empty. `Write` is
the encoder. A FieldMask is spelled out, letter by letter, since its conversion
there and back is the question.

### MessageText, TableMarshal and RoundTrip

`TableMarshal` writes one member or item per step. `bufs` has the output buffer
and the second ones of Any in progress, `stack` the `marshalTo`, list and map
calls in progress. The presence tests (`ScalarShown` ... `OneofShown`) are those
of the cases of `marshalTo`. `MessageText` defines the text without buffers or
pending commas, as a recursive function on `Values`: the trees of leaves, lists,
maps, messages and Any, of depth at most `MaxDepth`, over the message types `Types`
and the numbers `Numbers` that stand for keys of maps and for extensions. A map
has a value for each number, nil for those that are not in it.

`RoundTrip` hands the members of the text to `TableUnmarshal` (`DecodeMember`),
with a target that holds old values. The two halves agree on presence, names and
null by convention only; `Reread` says what a message comes back as. `FlatType`
and `Flat` say what the two halves call the same field: its shape in the encoder,
its kind in the decoder, and the leaves it may hold. Messages of `ReadBack` are of
fields with one token each.

### EncoderPool

Blocks of memory are numbered, bytes are tagged with the call they are written
for. A goroutine's `frames` are its calls of `Marshal` and `marshalAny` with the
buffer each borrowed; `pooled` counts how often a block is in the pool. `Get`
(any pooled block or a new one), `Reset`, `Write`, `CopyOut`, `AppendAny`, `Put`,
`AppendField`, and `Fail` with `PutFailed` for the deferred returns on an error
path; `Forget` is the garbage collector. `NewEncoder`, `Free` and `Bytes` of
`runtime.go` follow the same protocol on a pool of their own.

### IntegerToken, DurationText, CivilTime

`IntegerToken` reads byte by byte: the fast accumulation (`SimpleFirst`,
`SimpleDigit`, `SimpleEnd`, `SimpleGiveUp`), the rescan by `readJSONNumberToken`
(`ScanByte`, `ScanEnd`), strings (`StringByte`), and the conversion by
`strconv.ParseInt`, then `ParseFloat` (`Convert`). `DurationText` passes a value
or a text through any order of writers and parsers. `CivilTime` turns a calendar
over year by year, counting leap years, and compares the formula of
`daysSinceUnixEpoch` with it.

## 3. Runs

| run | instance | shows |
|---|---|---|
| `cache_safety` | 3 goroutines, types A(B, C), B(A), C(C, unsupported), one nested step per call | type correctness, one table per type, one compiler per table, only published tables are used, sound skipping of waits, fallback honoured, published tables are final |
| `cache_live` | 2 goroutines, same types, two nested steps | every call returns; the cache implements `TableRegistry` |
| `cache_dynamic` | 2 goroutines, two descriptors of one Go type | violated: `FallbackHonoured` |
| `decode_reused` | 6 fields (plain with two names, enum, optional enum, a oneof of two members, one of them null-valued, a oneof of one enum), an extension, unknown keys and enum names, old targets, documents of up to 3 members, mask widths 1, 5, 6, 7 | acceptance, rejection and result are those of the document, with and without discarding |
| `codegen_object` | 5 fields (two names, nested message, oneof, optional), nested objects with bytes that have presence, a oneof and their own conflicts, up to 3 members; and every message the encoder is given | the two passes decode what the document means and refuse only illegal ones; encoded messages come back, but for empty bytes, in the fast pass alone |
| `nested_input` | values nested up to twice the limit, every way of reaching a message, arrays, unknown keys, escaped keys, Any in every shape, and broken inputs | the counter is the nesting, the recursion of all decoders is bounded, the verdict is that of the value, decoding ends |
| `map_object` | 3 kinds of keys, 4 of values, 3 members, old contents | result, refusal and order of the text are those of the members; in the table decoder keys do not change with the input |
| `map_shared_keys` | the generated decoders, input reused | violated: `KeysAreOwned` |
| `known_value` | 7 types, 5 places, old values, trees of depth 2, mask texts up to 4 letters, masks to write; a calendar | verdict and result are those of the input; what is written is read back, and just what has no text is refused; in years 0 to 9999, days are counted right and just real dates accepted |
| `round_trip` | messages nested through every shape, 4 options; a flat message with every presence, read back | the text is the reference text; only unencodable messages fail; the flat message survives |
| `encoder_pool` | 2 goroutines, 5 blocks, 2 calls, 2 nested buffers | a block has one owner; output is not mixed; results stay as they were; large buffers are not pooled |
| `scalars` | texts up to 5 bytes for 4 integer types; durations | values are exact, and exactly the well-formed texts are accepted |

Every property of a passing run has a mutant in `PROJECT.json`: a definition of
the model is replaced by the "slip" that stands before it in the module, a
mistake one could make in that code (no second look under the lock, `done`
stored too early, a wait dropped, a mask one bit too narrow, a null that takes
its oneof, a rewind that keeps its marks or the depth, a buffer put back twice,
a missing overflow test ...), and TLC then finds the property violated.

Further configurations reproduce the findings of section 6. Each has one
property, and TLC stops at a violation:

| configuration | module | property |
|---|---|---|
| `DecodeStale.cfg`, also with `Inputs <- PlainTokens` and `Targets <- EmptyBytesTargets`; `DecodeStaleExtension.cfg`, `DecodeSwappedNames.cfg` | `MCTableUnmarshal` | `ResultIsDocument` |
| `CodegenEnum.cfg` | `MCCodegenObject` | `DecodesMeaning` |
| `CodegenList.cfg` | `MCCodegenObject` | `RefusesOnlyIllegal` |
| `CodegenBytes.cfg` | `MCCodegenObject` | `KeepsPresence` |
| `MapBoolKeys.cfg` | `MCMapObject` | `MapIsDocument` |
| `MapNullEnum.cfg` | `MCMapObject` | `OutputIsReadable` |
| `KnownDiverging.cfg`, with `StaleReadings`, `DoubledReadings`, `NullItems` or `NullExtensions` | `MCKnownValue` | `KnownIsInput` |
| `IntegerExact.cfg` | `MCScalars` | `IntegersExact` |
| `IntegerSpelled.cfg` | `MCScalars` | `HoweverSpelled` |
| `DurationParsers.cfg` | `MCScalars` | `ParsersAgree` |

### Bounds

Cache. Three types suffice for a table that is nested in another, a mutual and a
self reference; three goroutines for two that compile into each other while a
third meets either's placeholder. `MaxDepth` bounds the walk only: one step is
enough to use a nested table without waiting, the second one (run `cache_live`)
reaches a table nested in that one. The state space is otherwise finite, as each
type is compiled once. Goroutines are symmetric in `cache_safety`, which checks
no liveness.

One object. The interesting mask width is the number of fields, one less and one
more (6, 5 and 7 for six fields), and for the oneof tracker the number of oneofs
and one less. A duplicate or a conflict needs two members, a third comes before,
between or after them: it moves the hint, takes or frees the oneof, or makes the
fast pass give up in between. The code has 64 bits; a width
that is scaled with the number of fields keeps every boundary between them. In
`round_trip` the widths are 3 and 64 for six fields, one on each side.

Nested values. The limit of 100 is 2 here, with three layers around a leaf and
every kind of layer in every position, so that a value is below, at and above
the limit under each decoder and across a hand-over. Broken inputs are values of
up to three layers with a token missing, a literal misspelled or a token too many.

Maps and known types. Three members for two spellings of a key and one more.
Structs, lists and Values are trees of depth 2, so that one is inside
another and a second value follows after it was closed. Four letters for a path
show an underscore before, after and between letters, a digit, a capital, and a
separator with an empty part.

Pool. `Limit` is 1 byte: every buffer may be at or above it. Two calls of one or
of two goroutines pass a buffer on; two frames nest an Any or a field; five
blocks hold two frames of each goroutine and a copy.

Scalars. `int64` has 5 bits (at most 15), `int32` at most 5, `uint32` at most 13,
floats have 3 bits of precision, five bytes overflow all of them by digits, sign
or exponent. A refusal is checked for every input that begins with the bytes looked
at and goes on in one of four ways (`Endings`), one of which is an exponent that
brings the digits back into range. Only the order of the bounds and the place of the last digit matter
to the overflow tests. Durations have three decimals in three groups of one and
90 seconds at most, an `int64` of 127 between the two. Years are not scaled.

### Deadlock and fairness

Deadlock is checked in the cache runs. It is off elsewhere, since a call ends.

`TableCache` assumes weak fairness of each goroutine's own steps: the
Go scheduler runs every runnable goroutine. It is not assumed that anybody calls.
Weak fairness is enough at the mutex because each type is published once, so the
lock is eventually free for good. `NestedInput` assumes weak fairness of `Next`:
the decoder is one goroutine that does not block. The other runs check safety
only.

## 4. Proofs

### The table cache

`TableCacheProofs` proves, for any set of goroutines, types, descriptors and
message graphs (`ConstantsAssumption` says no more than their types):

| theorem | property |
|---|---|
| `TypeCorrect` | `TypeOK` |
| `TablesUnique` | `OneTablePerType` |
| `CompilersUnique` | `SoleCompiler` |
| `OnlyPublishedUsed` | `UseOnlyPublished` |
| `SkippedWaitsSound` | `SkipWaitSound` |
| `PublishedStaysFinal` | `PublishedIsFinal` |

None of these is inductive alone, and they need each other. `IInv` is the
conjunction of

* `CacheInv`: `cache` and `tables` name each other (one table per type);
* `StackInv`: a goroutine has frames exactly while it compiles; a frame's table
  is open and unfinished, except for the top frame at the last line of the
  publishing section; a frame below the top has a field left to visit, so the
  one that returns to it finds the field it was asked for;
* `DistinctInv`, `OwnedInv`: no two frames fill one table, and every open table
  has a frame;
* `ControlInv`: the mutex belongs to the goroutine that publishes; a goroutine
  that uses a table holds a finished one; the description is there before `done`;
* `DoneInv`: closed implies done, and done implies described;
* `FieldsInv`: a field that is not to be waited for names a finished table, in a
  finished table as in a frame.

`PublishedStaysFinal` is the reason for `DistinctInv`: the goroutine that writes
to a table is its only compiler, and by `StackInv` has not stored `done` yet.
`SkippedWaitsSound` rests on `done` never being taken back (`FieldsKept`).

The proof has one lemma for each group of actions: `QuietActions` (all that
touch neither cache, tables nor frames), `StoreStep` (the placeholder),
`RecordStep`, `PublishActions` and `CloseStep`, which `NextIInv` combines.

### The encoder pool

`EncoderPoolProofs` proves, for any goroutines, any set of blocks, any limit and
any bounds on calls, nesting and bytes (`PoolAssumption`: they are numbers, and
an address is not 0):

| theorem | property |
|---|---|
| `PoolTypes` | `TypeOK` |
| `OneOwner` | `Exclusive` |
| `BuffersIntact` | `OutputIntact` |
| `ReturnedIntact` | `ResultsIntact` |
| `NoLargePooled` | `PooledSmall` |

The properties say who owns a block once a result is out; between `CopyOut` and
the return, the copy belongs to a goroutine, and nothing in `Exclusive` says that
nobody else has it. `IInv` adds this and the control:

* `PoolInv`: a pooled block is in the pool once, allocated and within the limit;
* `FrameInv`: the block of every frame is taken (allocated, not pooled), and no
  two frames have the same;
* `CopyInv`, `ResultInv`: so is the block of every copy under way and of every
  result, it is no frame's and no other copy's, and its bytes are those encoded;
* `ControlInv`: a goroutine is idle exactly while it has no frame; its outermost
  frame is a call; there is a copy to hand over where one is needed; a buffer
  about to be reset has had nothing written;
* `IntactInv`: every buffer but one about to be reset holds what its frame wrote.

The argument is that `Get` gives out a block that is not taken, and what is not
taken nobody has (`Untaken`). From there `Borrow` covers `Call` and `Nest`,
`AppendInto` covers `Write` and `AppendAny` (a frame's block is no one else's, so
writing into it disturbs nobody: `OwnersKept`, `ContentKept`), and `Release`
covers `Put` and `PutFailed`: a frame that goes gives its block to the pool or to
the collector, never a block of a copy. `PushShape`, `PopShape` and
`RewriteShape` say how each changes the stack of frames. The invariant was first
checked by TLC on the instance of `EncoderPool.cfg`.

### The table cache and its registry

The last part of `TableCacheProofs` is about what the tables hold:

| theorem | property | hypothesis |
|---|---|---|
| `FallbackIsHonoured` | `FallbackHonoured` | `OneTypeEach` |
| `RefinesRegistry` | `Registry!Safety`, the safety part of `ImplementsRegistry` | `OneTypeEach` |

`OneTypeEach` says that no two descriptors share a Go type. Generated messages
are like that; those of dynamicpb are not, which is what `cache_dynamic` shows,
and it is the only thing the cache needs of its callers. The invariant adds to
`IInv` what data a goroutine has in hand (`AgreeInv`):

* `FramesInv`: the table of a frame has the type of the frame's descriptor, the
  fields recorded so far are the first nested messages of that descriptor, and
  the frame above compiles the next one;
* `WholeInv`: a table that is done has all fields and flags of its descriptor;
* `CopyInv`: what the publishing section has copied at each of its lines;
* `HeldInv`: the table a goroutine waits for, uses or records is of the type of
  the message it asked for.

The refinement then goes action by action (`StatusOf` and `ClientOf` are the
mapping): `Call` and `Reenter` are `Ask`, storing the placeholder is `Register`,
`StoreDone` is `Publish`, `AwaitReady` is `Answer`, `Descend` is `Follow`,
`Return` is `Leave`, and every other step changes nothing that the registry sees.

### The table encoder

`TableMarshalProofs` is about any message types and numbers, messages of any size
and depth (`MaxDepth` is any number), any fallback types and all options:

| theorem | property |
|---|---|
| `EncoderWritesText` | `OutputIsText` |
| `EncoderFailsOnlyOnInvalid` | `FailsOnlyOnInvalid` |

The assumptions are that types have fields of the known shapes and that the
messages to encode are values.

The text of a message is a recursive function, and the encoder has a stack, so
the proof has two parts. The first is about the data. `Recursion` shows that
equations which refer to less deep values have a solution; `TextIs` and
`EncodableIs` are the equations of `Text` and `Encodable`, with a minimal
counterexample in place of an induction over depth. `JoinedShift` and `SortedIs`
are about commas and about the order of entries and extensions.

The second part is about the steps. `Rest(f, o)` is what a frame has still to
write, commas included: a frame of a message looks at `wroteAny`, one of a list or
a map at its position. `Writes(bs, fs, o, t)` says that what the buffers hold and what
the frames have still to write come to the text `t`: a frame of the message of an
Any writes to a buffer of its own, whose content reaches the one below without
its braces (`Into`). The invariant (`Going`) is that this is the text of the root,
that the root is encodable exactly if all that is still to write is, and that the
outermost frame is that of a message.

`MemberAdvances`, `ItemAdvances` and `EntryAdvances` say what one member, item or
entry takes off `Rest`; that a member which is left out takes off nothing, and would
not have failed, is where the presence tests meet the mapping (`ShownIs`). A step
then does one of four things: the top frame goes on (`GoingOn`), a frame is pushed,
with a buffer or without (`GoingInto`), or popped (`GoingBack`), or was the last
(`GoingOut`); `ValueGoes` goes through the alternatives of `WriteValue`. The
invariant speaks of texts that exist, so TLC checks the two properties, not the
invariant.

The module also puts this and the proofs of the table decoder (`Reader`) together:

| theorem | property | hypotheses |
|---|---|---|
| `TableRoundTrips` | `RoundTrips` | `NamesApart`, `NothingStale` of the decoder |

It is about any schema of fields with one token each (`ReadBackAssumption`), any mask
width, all options, and any target. Since the decoder has no unknown enum names and
no extensions here, all that `NothingStale` excludes is present but empty bytes in
the target of a wide message (`EmptyBytesTargets`). The instance of
`RoundTrip.cfg` has both hypotheses.

The invariant (`BothInv`) is that of the encoder and that of the decoder
(`ResultInv`), that nothing is read before the text is complete, and that the
members read are the first ones of those sent. The rest is about the text, with no
steps in it: `SentIs` cuts it into a name and a token for each field that is
shown, in ascending order of the fields (`SentRows`); `SentLegal` says that such a
document is legal, which for two members of a oneof is where the encoder's one
test of presence meets the decoder's tracker; and `SentMeaning` that it means
`Reread` of the message, kind by kind (`ValueReturns`), with what is left out
meaning absent.

### The table decoder

`TableUnmarshalProofs` is about any schema, mask width, target, extension set,
document length and token set that `SchemaAssumption`, `OneofAssumption` and
`DecodeAssumption` allow (names are unique as protoc requires, oneofs are
numbered from 1 as the descriptor does):

| theorem | property | hypotheses |
|---|---|---|
| `DecoderTypes` | `TypeOK` | none |
| `AcceptsOnlyLegal` | `AcceptedIsLegal` | `NamesApart` |
| `RejectsOnlyIllegal` | `RejectedIsIllegal` | `NamesApart` |
| `DecodesTheDocument` | `ResultIsDocument` | `NamesApart`, `NothingStale` |

The hypotheses are the findings of section 6, read the other way round.
`NamesApart` (no name belongs to two fields or to a field and an extension)
excludes `DecodeSwappedNames.cfg`. `NothingStale` has three parts: no extension in the
target (`DecodeStaleExtension.cfg`), no old content in a field of an enum if
enum names may be unknown (`DecodeStale.cfg`), no present empty bytes in the
target of a wide message (`EmptyBytesTargets`). Everything else a target may
hold is covered, and a document may have members in any order under any names.

`MarksInv` says that the seen mask (or map), the oneof tracker and the set of
extensions are exactly what the members read so far stand for; `FieldMarks` and
`OneofMarks` show that no bit is lost at any width, since the path is chosen by
it. `JudgedInv`, that the decoder has failed exactly if the prefix is illegal,
follows member by member from one lemma (`MemberJudge`). `ContentInv` says that
what was read is in the message, and that what has not been read is absent unless
`clearMissing` or the reset of the wide path will see to it.

### Generated code

`CodegenObjectProofs` is about any schema of the message and of its nested
messages, any keys, and documents of any length:

| theorem | property | hypotheses |
|---|---|---|
| `DecodesTheObject` | `DecodesMeaning` | `NoStrayNames` |
| `RefusesMistakesOnly` | `RefusesOnlyIllegal` | `NoNullItems` |
| `ReadsItsOwnOutput` | `ReadsOwnOutput` | none |
| | `KeepsPresence` | `NoEmptyBytes` |

The hypotheses are about the document and exclude just what `CodegenEnum.cfg` and
`CodegenList.cfg` find: a name, unknown and discarded, for an optional enum or a
member of a oneof, and a null item of a list. `DecodesTheObject` also says, without
one, that a document which is accepted is legal. The assumptions on the
schemas (`SchemasAssumption`) are that the generated `switch` has each name once,
without which the Go code does not compile, and that oneofs have members of their
kinds.

The invariant (`IInv`) says of each open object what its frame knows (`Read`): the
members before its position are legal together, `seen` and `oneofs` are what they
stand for, the fields hold their values and the others are absent; in the first
pass, all that was seen is before the next field, which is why this pass needs no
test for duplicates. A nested object is at the member that its outer frame has
come to, whose field is free (`Inside`); that its oneof or field is not marked
until the nested message is stored matters, since the nested pass may begin again.
The lemma `Advances` adds one member, for every field and pass; a rewind is a fresh
frame (`FreshRead`), so what the first pass stored or marked cannot remain. A
failure is always a mistake of the prefix read so far (`Misstep`, `MistakeInside`),
and a longer document has it too. `Unoccupied` shows that clearing the other
members of a oneof, which the code does on each store, changes nothing in a legal
document.

`ReadsOwnOutput` compares with `Kept`, the message without its present and empty
bytes, here and in a nested message: the encoder leaves out no more than these and
what is absent (`EmptyBytes`, `ShownIn`), and the decoder adds nothing. With
`NoEmptyBytes`, that there are none, `Kept` is the identity (`KeptWhole`).

For what the encoder wrote, `OwnInv` adds that the fields of the members ahead are
not before the next field (`Ahead`). A miss then moves on to a field that is not
in the text, and the fields cannot run out before the text does, which is the
condition of `Rewind`. `AscendingExists`, `OrderFacts` and `WrittenFacts` are about
the order of the text; `ShownValues` and `TokenMeans` that a token means the value
it was written for.

### Maps

`MapObjectProofs` is about any texts of keys, spellings and lengths:

| theorem | property | hypotheses |
|---|---|---|
| `MapHoldsDocument` | `MapIsDocument` | `KeysAgree` |
| `KeysSurviveReuse` | `KeysAreOwned` | `KeysAgree`, `InputIsKept` |
| `RefusesOnlyIllegal` | `RefusedIsIllegal` | `KeysAgree`, `NoNullEnum` |
| `WritesInOrder` | `OutputIsOrdered` | `KeysAgree`, `NoNullEnum` |

`KeysAgree` (`ParseBool` takes "true" and "false" only), `NoNullEnum` and
`InputIsKept` (nobody writes over the input of a decoder that shares its bytes)
are `MapBoolKeys.cfg`, `MapNullEnum.cfg` and `map_shared_keys`. The invariant is
that the map's entries are those of the members that were not dropped
(`EntriesInv`); a legal document with one more member is legal under the
conditions of `GrownLegal`, which are those of `ReadMember`. For the order, the
lemma `AscendingOrder` shows that a finite set with distinct ranks has an
ascending sequence: the place of an element is how many are below it.

### Nested input

`NestedInputProofs` is about every limit and every sequence of tokens,
well formed or not:

| theorem | property |
|---|---|
| `CounterIsRight` | `CounterIsNesting` |
| `RecursionIsBounded` | `RecursionBounded` |

The second one is not obvious in the code: `UnmarshalField` begins a decoder with
depth 0, and `findTypeURL` reads an object on a copy and then again. The
invariant (`Reading`) describes the calls in progress:

* `Stands`: the decoder at work, and the one each call began with, counts what
  is open since the last hand-over, and stands in the tokens where as many
  objects and arrays are open as all calls together have; so a return, a `Reset`
  or the end of a look-ahead finds the decoder where it was;
* `Bounded`: at no token read so far are more open than the limit and one;
* `HandedOK`: at no token of a value that was handed over either, since `Skip`
  went over it with the counter of the decoder before;
* `LookOK`, `WrappedOK`: the same for an Any, whose object the look-ahead has
  seen to its end;
* `OrderOK`: calls began in the order of the input.

A brace then fits for one of two reasons (`Roomy`): the counter of this decoder
has room, or the brace is part of a value that was looked through before. The shape
lemmas (`Pushes`, `Pops`, `Swaps`, `SwapsTwo`, `Stays`) say how a change of the
stack keeps the invariant, and each action has a lemma that it is one of them.
TLC checked the invariant on the instance of `NestedInput.cfg` first.

### Integers, dates and durations

For integers, `ScalarProofs` is about any bytes, inputs of any length, any widths (`MaxInt32
< MaxUint32 < MaxInt64`) and any float format:

| theorem | statement |
|---|---|
| `IntegersAreReadAsWritten` | `PlainIsExact` |
| `JustNumbersAreAccepted` | `AcceptedIsNumber`, one half of `JustNumbersAreRead` |

The value of a text (`Naturally`) is a recursive function. The proofs do no
induction over texts: the input grows by a byte a step, so the steps do it.
`StandsFor(text, v)` says that the table of values of the text's prefixes exists
and ends in `v`, and the invariant says it of what was consumed:

* `Opened`: what the phases know of the input's first byte and of where they are;
* `Accumulated`: in the digits loop, `u` is the value of the digits consumed. That
  a digit is refused when it does not fit, by the two tests before the
  multiplication, is what keeps `u` from wrapping, and the end of the loop
  narrows it;
* `Readable`: every part of digits that ends where the read is has a value, for
  the conversion that a rescan or a string ends in. A plain number then has just
  one reading (`OnlyPlainCut`, `PlainReading`), and `ConvertIsExact` goes through
  the branches of `Convert`, `-0` for an unsigned field among them.

For the second theorem, `LeadingIsRight` says that the digits loop has seen no
leading zero, and `ScanIsRight` that the state of `readJSONNumberToken` is right:
`Scanned` gives for each state the shape of what was consumed (sign, integer part,
fraction, exponent, and where each ends). `ScanAdvances` goes state by state, and
`CompleteIsNumber` shows that the complete ones are JSON numbers.

For dates:

| theorem | property | hypotheses |
|---|---|---|
| `DatesAreCounted` | `DaysAreCounted` | none: any last year |
| `JustDatesAreRead` | `DatesAreReal` | `LastYearAssumption`, `TextAssumption`: years have four digits, numbers in a text no sign |

The calendar of `CivilTime` counts, with no division; `daysSinceUnixEpoch` divides, in
eras of 400 years that begin in March. `CalendarInv` says where the calendar stands:
the countdowns are remainders of the year, and the days before it are 365 a year
and the leap years (`LeapYears`). That it is kept is that the three rules meet, a
century being a fourth year (`YearAfter`). The formula comes to the same years and
leap years in March years (`MarchDays`), for year 0 from the era before
(`Floor`), and its 153 days in five months are the months of the calendar (`Counted`). For the
second theorem, `YearsInRange` says that the dates of years 1 to 9999 are those
`ValidateTimestamp` lets pass.

For durations:

| theorem | property | hypotheses |
|---|---|---|
| `DurationsAreRead` | `ReadIsAmount` | `DigitsAssumption`: three groups of decimals; `SecondsAssumption`: the range is below the largest `int64`; `InputAssumption`: texts are sequences of bytes, values pairs of whole numbers |
| `DurationsAreKept` | `TextKeepsDuration` | the same |

Here a text does not grow by a step, it is read at once. What the digits of a text of
any length stand for is shown by climbing from each prefix to the next: a set of
numbers that holds 0 and passes itself on holds all of them up to a bound
(`Climb`, from the well-foundedness of the naturals applied to a set, so that no
theorem has to be instantiated with an operator). The steps:

* digits have a number (`NumberOf`) below the power of ten of their length
  (`DigitsBound`), `TenTo` multiplies (`TensMultiply`), and zeros at the end multiply
  by ten (`ZerosAtTheEnd`), which is what `FormatDuration` relies on when it trims;
* the digits that `Padded` writes stand for what was written (`PaddedIsNumber`):
  each prefix is a quotient by a power of ten;
* the loop of `parseDurationBytes` ends with that number, or refused when it is above
  `MaxCount` (`LoopIsNumber`): its test before the multiplication never lets the
  product wrap (`LoopTurn`);
* a text is taken apart exactly where it can be cut (`CutIsApart`, `ApartIsCut`), and
  in at most one way (`OneCut`);
* what a writer writes can be cut into what it wrote (`WrittenIsCut`), so that both
  parsers return the value (`WrittenIsRead`). `DurationInvariant` says that a text
  just written is one of the two texts of a valid value.

The texts that only one parser accepts (`ParsersAgree` is violated) have no cut:
`DurationsAreRead` is about the generated decoder, and no writer writes them.

### What is only model-checked

* `EveryCallReturns`, `EveryDecodeEnds` and the fairness part of
  `ImplementsRegistry`: liveness is out of the prover's reach.
* `JustTheLegal`, `KnownIsInput`, `KnownSurvives`: their references
  (`NestedValue`, the trees of `KnownValue`) are operators that are recursive in
  the data. The prover has no backend for a module with such an operator.
* `NumbersAreAccepted`, the other half of `JustNumbersAreRead`: that a number in
  range survives the rounding to a float needs the order of powers of ten and of
  two, an induction over exponents. `IntegersAreReadAsWritten` holds
  for any rounding. The attempt showed that the invariant had to speak of the
  bytes behind a refusal too; so stated it needs an exception, which is the finding
  of `IntegerSpelled.cfg`.

## 5. Plan

What is modelled so far covers about half of the implementation. The way `MessageText`
was made a recursive function on a set of trees, with a minimal counterexample in
place of an induction, would do for `JustTheLegal` and the trees of `KnownValue`.

Models that could be added: strings with escapes and surrogate pairs (the two
decoders have a scanner each), the content an Any ends up with, lists of
extensions, times with an offset.

## 6. What the runs found

Table cache

* `cache_dynamic`: `tableCache` is keyed by the Go type, and all dynamicpb
  messages share one. The table of the first descriptor serves all later ones:
  a first message without fields makes later ones lose their fallback to
  protojson.

Table decoder

* `DecodeStale.cfg`: an unknown name for a plain enum field, discarded,
  leaves the old value of a reused target; an optional enum is set to nil.
* `DecodeStaleExtension.cfg`: extensions that the document omits are not cleared.
* `DecodeStale.cfg`, `EmptyBytesTargets`: a message of more than 64 fields is not reset when its
  only content is a present, empty bytes field.
* `DecodeSwappedNames.cfg`: when `json_name` gives one field the proto name of
  another, the position hint and the field map disagree on what a key means.
* `KnownDiverging.cfg`, `StaleReadings`: an empty FieldMask text, and the object
  form of a wrapper without "value", leave a reused target as it was.
* `KnownDiverging.cfg`, `DoubledReadings`: a Struct accepts a key that comes twice.
* `KnownDiverging.cfg`, `NullItems` and `NullExtensions`: null as an item of a
  repeated Value is refused, and null for an extension of type Value clears it.
* `MapNullEnum.cfg`: the values of a map of NullValue are written as null and
  refused on the way back, also by generated code.

Generated code and its runtime

* `map_shared_keys`: the keys of a decoded map share the bytes of the caller's
  input, unlike those of the table decoder.
* `CodegenEnum.cfg`: a discarded enum name makes an optional enum or a oneof
  member present with value 0.
* `CodegenList.cfg`: null as an item of a repeated Value is refused.
* `CodegenBytes.cfg`: the encoder writes bytes outside a oneof when they are not
  empty, with presence or without (main.go:1052-1060), so bytes that are present
  and empty come back absent. This concerns bytes of proto2 messages that a
  message holds; for `optional bytes` of proto3 the decoder is generated with
  `target = &v` for a field of type `[]byte` (main.go:369, 812), which Go does not
  compile.
* `MapBoolKeys.cfg`: "1", "t" and the like are taken for bool keys.
* `IntegerExact.cfg`: an integer written with a fraction or an exponent goes
  through a float64 and may be read as its neighbour (both decoders).
* `IntegerSpelled.cfg`: digits that overflow are refused before the exponent that
  would bring them into range is read, outside a string (both decoders).
* `DurationParsers.cfg`: `ParseDuration` accepts a second sign ("--1s"), the
  generated decoder's parser does not.

Met on the way and kept in the model as the code has it: the brace of an Any is
not counted, so a value with Any may be one level deeper than the limit; null is
accepted for a wrapper or a time as the whole document; wrappers have an object
form; "value" may come twice in an Any.

The passing runs avoid exactly the cases of the violated ones: no two descriptors of one
type; no discarded enum, extension, present empty bytes, empty mask or empty
wrapper object over an old value; names that belong to one field; no input that
is reused under generated maps; no doubled key in a Struct and no null Value in
a list or extension; bool keys "true" and "false" among the legal ones; no integer
outside a string whose digits alone overflow. `codegen_object` has the present and
empty bytes of `CodegenBytes.cfg`, and `ReadsOwnOutput` says what becomes of them.

## 7. Not modelled

* The spelling of tokens: whitespace, string escapes and UTF-8, base64, floats,
  times with an offset or fraction (`time.Parse`, `FormatTimestamp`). Their
  tokens are "a value", "a default" or "something the field cannot read".
* How struct tags and offsets are found by reflection; the nil `err` of a table;
  the early close of a nested type that is no `proto.Message`
  (protojsonx.go:597-605; every generated message type is one).
* The content of an Any after the decode, Empty and Struct in an Any without a
  "value" (`hasValueKey`), and in `NestedInput` duplicate fields (checked in
  `TableUnmarshal` and `CodegenObject`) and tables that hand a raw value to
  protojson.
* null in lists of extensions and among keys of extensions.
* A nil message as the content of a oneof wrapper or as a value of a map. The
  table encoder does not ask for one (marshal.go:1570-1571), and would read the
  fields of a nil pointer; the values of `MessageText` are messages.
* The gRPC and Connect codecs (they forward one call), the conformance runner (a
  pipe), and the generated files, whose shape is modelled from the generator.
* protojson itself and the protobuf runtime are outside: `strconv`, `strings`,
  `FullName.IsValid` and `sync.Pool` appear as the code uses them.
