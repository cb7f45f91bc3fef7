------------------------------ MODULE WireTypes ------------------------------
(***************************************************************************)
(* The types ethercrab puts on the wire, as the crate declares them.       *)
(***************************************************************************)
EXTENDS Wire

u8   == [kind |-> "u8", len |-> 1]
bool == [kind |-> "bool", len |-> 1]
u16  == [kind |-> "int", len |-> 2]
u32  == [kind |-> "int", len |-> 4]
f32  == [kind |-> "f32", len |-> 4]
ByteArray(n) == [kind |-> "bytes", len |-> n]
Tuple(tys) == [kind |-> "tuple", tys |-> tys, len |-> Before(tys, Len(tys))]
Array(of, n) == [kind |-> "array", of |-> of, n |-> n, len |-> n * of.len]

\* A bitflags type of `len` bytes of which only the bits of `mask` are known
FlagsType(len, mask) == [kind |-> "flags", len |-> len, mask |-> mask]

\* A field of a given width, one with gaps around it, and a skipped one
Gap(pre, ty, bits, post) == [ty |-> ty, bits |-> bits, pre |-> pre, post |-> post, skip |-> FALSE]
Field(ty, bits) == Gap(0, ty, bits, 0)
SkipField(ty) == [Field(ty, 0) EXCEPT !.skip = TRUE]

Variant(n) == [disc |-> <<n>>, alts |-> <<>>, catch_all |-> FALSE, default |-> FALSE]
Default(n) == [Variant(n) EXCEPT !.default = TRUE]
CatchAll == [Variant(0) EXCEPT !.disc = <<>>, !.catch_all = TRUE]

\* Variants with these discriminants; n of them from a first one
Variants(discs) == [i \in DOMAIN discs |-> Variant(discs[i])]
From(first, n) == [i \in 1..n |-> first + i - 1]
U8Enum(discs) == EnumType(1, Variants(discs))
\* Its first variant has the #[default] attribute
U8Default(discs) == EnumType(1, [i \in DOMAIN discs |->
                                   IF i = 1 THEN Default(discs[1]) ELSE Variant(discs[i])])

-----------------------------------------------------------------------------
(* Frames and PDUs                                                         *)

ProtocolType == U8Enum(<<1>>)
EthercatFrameHeader == [kind |-> "EthercatFrameHeader", len |-> 2, protocol |-> ProtocolType]
PduFlags == [kind |-> "PduFlags", len |-> 2]
PduHeader == StructType(80, <<Field(u8, 8), Field(u8, 8), Field(ByteArray(4), 32),
                              Field(PduFlags, 16), Field(u16, 16)>>)

(* Registers                                                               *)

SubDeviceState == EnumType(1, Variants(From(0, 5) \o <<8>>) \o <<CatchAll>>)
AlControl == StructType(16, <<Field(SubDeviceState, 4), Field(bool, 1), Gap(0, bool, 1, 10)>>)
AlStatusCode == EnumType(2, Variants(From(0, 4) \o <<5>> \o From(17, 29) \o From(48, 8)
                                     \o From(65, 5) \o <<79, 80, 81, 96, 97, 240>>) \o <<CatchAll>>)
DlStatus == StructType(16, <<Field(bool, 1), Field(bool, 1), Gap(0, bool, 1, 1)>>
                           \o [i \in 1..12 |-> Field(bool, 1)])
PortType == U8Enum(<<0, 1, 2, 3>>)
SupportFlags == StructType(16, [i \in 1..11 |-> Field(bool, 1)] \o <<Gap(0, bool, 1, 4)>>)
Fmmu == StructType(128, <<Field(u32, 32), Field(u16, 16), Gap(0, u8, 3, 5), Gap(0, u8, 3, 5),
                          Field(u16, 16), Gap(0, u8, 3, 5), Field(bool, 1), Gap(0, bool, 1, 6),
                          Gap(0, bool, 1, 31)>>)
OperationMode == U8Default(<<0, 2>>)
Direction == U8Default(<<0, 1>>)
BufferState == U8Default(<<0, 1, 2, 3>>)
Control == StructType(8, <<Field(OperationMode, 2), Field(Direction, 2), Field(bool, 1),
                           Field(bool, 1), Gap(0, bool, 1, 1)>>)
Status == StructType(8, <<Field(bool, 1), Gap(0, bool, 1, 1), Field(bool, 1),
                          Field(BufferState, 2), Field(bool, 1), Field(bool, 1)>>)
Enable == StructType(16, <<Field(bool, 1), Gap(0, bool, 1, 4), Field(bool, 1), Field(bool, 1),
                           Field(bool, 1), Gap(0, bool, 1, 6)>>)
SyncManagerChannel == StructType(64, <<Field(u16, 16), Field(u16, 16), Field(Control, 8),
                                       Field(Status, 8), Field(Enable, 16)>>)

(* Mailbox                                                                 *)

Priority == U8Default(<<0, 1, 2, 3>>)
MailboxType == U8Enum(<<0, 1, 2, 3, 4, 5, 15>>)
MailboxHeader == StructType(48, <<Gap(0, u16, 16, 16), Gap(6, Priority, 2, 0),
                                  Field(MailboxType, 4), Gap(0, u8, 3, 1)>>)
CoeService == U8Enum(<<1, 2, 3, 4, 5, 6, 7, 8>>)
CoeHeader == StructType(16, <<Gap(12, CoeService, 4, 0)>>)
CoeCommand == U8Enum(<<1, 2, 4, 3>>)
SdoHeader == StructType(32, <<Field(bool, 1), Field(bool, 1), Field(u8, 2), Field(bool, 1),
                              Field(CoeCommand, 3), Field(u16, 16), Field(u8, 8)>>)
SdoHeaderSegmented == StructType(8, <<Field(bool, 1), Field(u8, 3), Field(bool, 1),
                                      Field(CoeCommand, 3)>>)
SdoInfoOpCode == U8Enum(<<1, 2, 3, 4, 5, 6, 7>>)
SdoInfoHeader == StructType(32, <<Field(SdoInfoOpCode, 7), Field(bool, 1), Gap(8, u16, 16, 0)>>)
Headers == <<Field(MailboxHeader, 48), Field(CoeHeader, 16)>>
SdoExpedited == StructType(128, Headers \o <<Field(SdoHeader, 32), Field(ByteArray(4), 32)>>)
SdoNormal == StructType(96, Headers \o <<Field(SdoHeader, 32)>>)
SdoSegmented == StructType(72, Headers \o <<Field(SdoHeaderSegmented, 8)>>)
ObjectDescriptionListQueryInner == U8Enum(<<0, 1, 2, 3, 4, 5>>)
ObjectDescriptionListQuery == U8Enum(<<1, 2, 3, 4, 5>>)
ObjectDescriptionListRequest ==
  StructType(112, Headers \o <<Field(SdoInfoHeader, 32), Field(ObjectDescriptionListQueryInner, 16)>>)
ObjectDescriptionListResponse == StructType(96, Headers \o <<Field(SdoInfoHeader, 32)>>)
ObjectDescriptionListQueryCounts == StructType(80, [i \in 1..5 |-> Field(u16, 16)])
HeadersRaw == StructType(96, Headers \o <<Gap(5, CoeCommand, 3, 0), Field(u16, 16), Field(u8, 8)>>)
CoeAbortCode ==
  EnumType(4, Variants(<<\h05030000, \h05040000, \h05040001, \h05040005>> \o From(\h06010000, 7)
                       \o <<\h06020000, \h06040041, \h06040042, \h06040043, \h06040047,
                            \h06060000, \h06070010, \h06070012, \h06070013, \h06090011,
                            \h06090030, \h06090031, \h06090032, \h06090036, \h08000000>>
                       \o From(\h08000020, 4)) \o <<CatchAll>>)
EmergencyData == StructType(64, <<Field(u16, 16), Field(u8, 8), Field(ByteArray(5), 40)>>)
Mapping == StructType(32, <<Field(u8, 8), Field(u8, 8), Field(u16, 16)>>)

(* EEPROM                                                                  *)

SiiOwner == U8Default(<<0, 1>>)
SiiAccess == U8Default(<<0, 1>>)
SiiReadSize == U8Default(<<0, 1>>)
SiiAddressSize == U8Default(<<0, 1>>)
SiiControl == StructType(16, <<Field(SiiAccess, 1), Gap(4, bool, 1, 0), Field(SiiReadSize, 1),
                               Field(SiiAddressSize, 1)>> \o [i \in 1..8 |-> Field(bool, 1)])
SiiRequest == StructType(48, <<Field(SiiControl, 16), Gap(0, u16, 16, 16)>>)
SiiCoding == EnumType(2, Variants(From(0, 5) \o <<7, 8, 10, 12, 14, 16>> \o From(20, 9) \o <<62, 63>>))
PrimitiveDataType == U8Enum(<<0, 1>> \o From(45, 19) \o From(2, 7) \o From(16, 5)
                            \o <<21, 22, 24, 25, 26, 27>> \o From(30, 3))
CategoryType ==
  EnumType(2, <<Default(0), [Variant(1) EXCEPT !.alts = From(2, 8)]>>
              \o Variants(<<10, 20, 30, 40, 41, 42, 43, 50, 51, 60, 65535>>))
FmmuUsage == EnumType(1, <<[Variant(0) EXCEPT !.alts = <<255>>]>> \o Variants(<<1, 2, 3>>))
FmmuEx == StructType(24, <<Gap(8, u8, 8, 8)>>)
PortStatus == U8Default(<<0, 1, 2, 3, 4>>)
PortStatuses == [kind |-> "PortStatuses", len |-> 2, status |-> PortStatus]
Flags == FlagsType(1, 0..4)
CoeDetails == FlagsType(1, 0..5)
SiiGeneral == StructType(144, <<Field(u8, 8), Field(u8, 8), Field(u8, 8), Gap(0, u8, 8, 8),
                                Field(CoeDetails, 8), Field(bool, 8), Gap(0, bool, 8, 24),
                                Field(Flags, 8), Field(u16, 16), Field(PortStatuses, 16),
                                Field(u16, 16)>>)
SyncManagerEnable == FlagsType(1, 0..3)
SyncManagerType == U8Default(<<0, 1, 2, 3, 4>>)
SyncManager == StructType(64, <<Field(u16, 16), Field(u16, 16), Gap(0, Control, 8, 8),
                                Field(SyncManagerEnable, 8), Field(SyncManagerType, 8)>>)
Pdo == StructType(64, <<Field(u16, 16), Field(u8, 8), Gap(0, u8, 8, 32), SkipField(u16)>>)
PdoEntry == StructType(64, <<Gap(40, u8, 8, 16)>>)
PdoFlags == FlagsType(2, (0..15) \ {3})
\* One byte of the two is read
MailboxProtocols == FlagsType(1, 0..5)
DefaultMailbox == StructType(80, [i \in 1..4 |-> Field(u16, 16)] \o <<Field(MailboxProtocols, 16)>>)
SubDeviceIdentity == StructType(128, [i \in 1..4 |-> Field(u32, 32)])

(* Types that are read and written, and types that are only read           *)

ReadWriteTypes ==
  {EthercatFrameHeader, PduFlags, PduHeader, SubDeviceState, AlControl, Fmmu, OperationMode,
   Direction, BufferState, Control, Status, Enable, SyncManagerChannel, Priority, MailboxType,
   MailboxHeader, CoeService, CoeHeader, CoeCommand, SdoHeader, SdoHeaderSegmented,
   SdoInfoOpCode, SdoInfoHeader, SdoExpedited, SdoNormal, SdoSegmented,
   ObjectDescriptionListQueryInner, ObjectDescriptionListQuery, ObjectDescriptionListRequest,
   ObjectDescriptionListResponse, SiiOwner, SiiAccess, SiiReadSize, SiiAddressSize, SiiControl,
   SiiRequest}
ReadTypes ==
  {ProtocolType, AlStatusCode, CoeAbortCode, SiiCoding, PrimitiveDataType, PdoFlags, DlStatus, PortType, SupportFlags, ObjectDescriptionListQueryCounts, HeadersRaw,
   EmergencyData, Mapping, CategoryType, FmmuUsage, FmmuEx, PortStatus, PortStatuses, Flags,
   CoeDetails, SiiGeneral, SyncManagerEnable, SyncManagerType, SyncManager, Pdo, PdoEntry,
   MailboxProtocols, DefaultMailbox, SubDeviceIdentity}

\* The crate compiles: the macro accepts all of them
ASSUME Compiles == \A t \in ReadWriteTypes \cup ReadTypes :
                     /\ t.kind = "struct" => t.ok /\ ~Panics(t)
                     /\ t.kind = "enum" => t.meta.ok
=============================================================================
