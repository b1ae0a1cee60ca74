------------------------------ MODULE EventAdapter ------------------------------
(***************************************************************************)
(* From a decoded webcast message to the event a listener sees:            *)
(* packages/tiktok-live/src/events.ts, and beside it the Rust statement of *)
(* the same adapter, crates/ttl-live-events.                               *)
(*                                                                         *)
(* A message is the record of the fields the adapters read; an image is    *)
(* the list of its URLs (an absent image has none), an absent message None *)
(* and a string whose length matters the sequence of its UTF-16 units.     *)
(* Decoding protobuf itself is generated code: a payload that does not     *)
(* decode is the message Garbled.                                          *)
(***************************************************************************)
EXTENDS PublicSchemas, SequencesExt

CONSTANTS
    MaxEmotes,         \* MAX_EMOTES_PER_EVENT
    MaxEmoteIdBytes    \* MAX_EMOTE_ID_LENGTH

None == [none |-> TRUE]
Garbled == [garbled |-> TRUE]

(* An object with the field when there is a value for it. *)
Maybe(present, field, value) == IF present THEN field :> value ELSE <<>>

--------------------------------------------------------------------------------
(* Counts, ids and strings *)

SafeCountWraps(n) == IF n > MaxSafe THEN MaxSafe ELSE n
SafeCount(n) == IF n <= 0 THEN 0 ELSE IF n > MaxSafe THEN MaxSafe ELSE n

AsId(n) == Str(ToString(n))

HighSurrogate(unit) == unit \in 55296 .. 56319

(* The bytes of the string from its i-th unit on, by the code's loop. *)
RECURSIVE BytesFrom(_, _)
BytesFrom(s, i) ==
    IF i > Len(s) THEN 0
    ELSE CASE s[i] < 128 -> 1 + BytesFrom(s, i + 1)
           [] s[i] \in 128 .. 2047 -> 2 + BytesFrom(s, i + 1)
           [] HighSurrogate(s[i]) /\ i < Len(s) -> 4 + BytesFrom(s, i + 2)
           [] OTHER -> 3 + BytesFrom(s, i + 1)
Utf8Units(s) == Len(s)
Utf8Length(s) == BytesFrom(s, 1)

--------------------------------------------------------------------------------
(* Users, images and emotes *)

FirstImageUrl(image) == IF image = <<>> THEN "" ELSE image[1]

(* The images of a user in the order they are tried. *)
Avatars(user) == <<user.avatarThumb, user.avatarMedium, user.avatarLarge, user.avatarJpg>>

AvatarUrl(user) ==
    LET urls == [i \in 1 .. 4 |-> FirstImageUrl(Avatars(user)[i])]
        found == SelectSeq(urls, LAMBDA url : url # "")
    IN  IF found = <<>> THEN "" ELSE found[1]

NormalizeUser(user) ==
    IF user = None
    THEN Obj([userId |-> Str("0"), nickname |-> Str(""), uniqueId |-> Str(""),
              secUid |-> Str("")])
    ELSE Obj([userId |-> AsId(user.id), nickname |-> Str(user.nickname),
              uniqueId |-> Str(user.displayId), secUid |-> Str(user.secUid)]
             @@ Maybe(AvatarUrl(user) # "", "avatarUrl", Str(AvatarUrl(user))))

(* The tests of sanitizeImageUrl on the URLs of the model: length and      *)
(* characters, an authority after "://", the parser, scheme, credentials.  *)
Printable(url) == url \notin {"https://too-long", "https://a b"}
HasAuthority(url) == url \in {"https://a", "https://b", "https://u@c", "ftp://e",
                              "https://too-long", "https://a b"}
SanitizeImageUrl(url) ==
    /\ Printable(url)
    /\ HasAuthority(url)
    /\ IsUri(url)
    /\ url # "ftp://e"
    /\ url # "https://u@c"

(* The emote as a sequence of at most one element, with the fields the     *)
(* enclosing message adds to it.                                           *)
NormalizeEmote(emote, index) ==
    LET images == SelectSeq(emote.image, SanitizeImageUrl)
    IN  IF \/ emote = None
           \/ Utf8Length(emote.emoteId) > MaxEmoteIdBytes
           \/ emote.emoteId = <<>> /\ images = <<>>
        THEN <<>>
        ELSE <<Obj([id |-> Str(emote.emoteId)]
                   @@ Maybe(images # <<>>, "imageUrl", Str(images[1]))
                   @@ index
                   @@ Maybe(emote.emoteType # 0, "emoteType", Num(emote.emoteType))
                   @@ Maybe(emote.packageId # "", "packageId", Str(emote.packageId)))>>

(* The loop of collectEmotes over what is left of the source. *)
RECURSIVE CollectEmotes(_, _)
CollectEmotes(collected, emotes) ==
    IF emotes = <<>> \/ Len(collected) >= MaxEmotes THEN collected
    ELSE CollectEmotes(collected \o NormalizeEmote(Head(emotes).emote, Head(emotes).index),
                       Tail(emotes))

NormalizeInlineEmotes(emotes) ==
    CollectEmotes(<<>>, [i \in DOMAIN emotes |->
        [emote |-> emotes[i].emote, index |-> [index |-> Num(emotes[i].index)]]])

NormalizeStandaloneEmotes(emotes) ==
    CollectEmotes(<<>>, [i \in DOMAIN emotes |-> [emote |-> emotes[i], index |-> <<>>]])

NormalizeContributor(c) ==
    Obj([rank |-> Num(SafeCount(c.rank)), score |-> Num(SafeCount(c.score)),
         delta |-> Num(SafeCount(c.delta)), user |-> NormalizeUser(c.user)])

--------------------------------------------------------------------------------
(* The messages *)

NormalizeChat(m) ==
    LET emotes == NormalizeInlineEmotes(m.emotes)
    IN  [user |-> NormalizeUser(m.user), comment |-> Str(m.content)]
        @@ Maybe(emotes # <<>>, "emotes", Arr(emotes))

NormalizeEmoteChat(m) ==
    [user |-> NormalizeUser(m.user), emotes |-> Arr(NormalizeStandaloneEmotes(m.emoteList))]

NormalizeGift(m) ==
    [user |-> NormalizeUser(m.user),
     toUser |-> NormalizeUser(m.toUser),
     giftId |-> AsId(m.giftId),
     giftName |-> Str(IF m.gift = None THEN "" ELSE m.gift.name),
     diamondCount |-> Num(SafeCount(IF m.gift = None THEN 0 ELSE m.gift.diamondCount)),
     repeatCount |-> Num(SafeCount(m.repeatCount)),
     comboCount |-> Num(SafeCount(m.comboCount)),
     groupId |-> AsId(m.groupId),
     repeatEnd |-> Bool(m.repeatEnd > 0)]

NormalizeLike(m) ==
    [user |-> NormalizeUser(m.user),
     count |-> Num(SafeCount(m.count)), total |-> Num(SafeCount(m.total))]

NormalizeMember(m) ==
    [user |-> NormalizeUser(m.user),
     memberCount |-> Num(SafeCount(m.memberCount)), action |-> Num(SafeCount(m.action))]

NormalizeSocial(m) ==
    [user |-> NormalizeUser(m.user),
     action |-> Num(SafeCount(m.action)),
     followCount |-> Num(SafeCount(m.followCount)),
     shareCount |-> Num(SafeCount(m.shareCount)),
     shareType |-> Num(SafeCount(m.shareType)),
     shareTarget |-> Str(m.shareTarget),
     shareDisplayStyle |-> Num(SafeCount(m.shareDisplayStyle)),
     followType |-> Num(SafeCount(m.followType)),
     scene |-> Str(m.scene),
     targetUserId |-> AsId(m.targetUserId)]

NormalizeRoomUser(m) ==
    LET ranks == Arr([i \in DOMAIN m.ranks |-> NormalizeContributor(m.ranks[i])])
    IN  [viewers |-> Num(SafeCount(m.total)), popularity |-> Num(SafeCount(m.popularity)),
         totalUser |-> Num(SafeCount(m.totalUser)), anonymous |-> Num(SafeCount(m.anonymous)),
         topViewers |-> ranks, rankedViewers |-> ranks]

(* METHOD and EVENT: the messages that have an adapter of their own. *)
EventTypes == {"chat", "emoteChat", "gift", "like", "member", "social", "roomUser"}

Normalize(type, m) ==
    CASE type = "chat" -> NormalizeChat(m)
      [] type = "emoteChat" -> NormalizeEmoteChat(m)
      [] type = "gift" -> NormalizeGift(m)
      [] type = "like" -> NormalizeLike(m)
      [] type = "member" -> NormalizeMember(m)
      [] type = "social" -> NormalizeSocial(m)
      [] type = "roomUser" -> NormalizeRoomUser(m)

DecodeEvent(method, m) ==
    IF method \notin EventTypes \/ m = Garbled
    THEN Obj([type |-> Str("unknown"), method |-> Str(method)])
    ELSE Obj([type |-> Str(method), method |-> Str(method)] @@ Normalize(method, m))

SchemaOf(type) ==
    CASE type = "chat" -> ChatEventSchema
      [] type = "emoteChat" -> EmoteChatEventSchema
      [] type = "gift" -> GiftEventSchema
      [] type = "like" -> LikeEventSchema
      [] type = "member" -> MemberEventSchema
      [] type = "social" -> SocialEventSchema
      [] type = "roomUser" -> RoomUserEventSchema
      [] OTHER -> BaseEventSchema

--------------------------------------------------------------------------------
(* The Rust adapter, in the same shape: an unsigned count is a number, an  *)
(* absent Option an absent field, an id the decimal text of its u64.       *)

RustCount(n) == IF n < 0 THEN 0 ELSE n

(* str::len: the UTF-8 bytes of the characters the units stand for.        *)
CodePoints(s) == {i \in DOMAIN s : ~(i > 1 /\ HighSurrogate(s[i - 1]))}
RustLen(s) ==
    FoldLeft(LAMBDA sum, i : sum + CASE HighSurrogate(s[i]) -> 4
                                     [] s[i] < 128 -> 1
                                     [] s[i] \in 128 .. 2047 -> 2
                                     [] OTHER -> 3,
             0, SetToSeq(CodePoints(s)))

RustUser(user) ==
    IF user = None THEN NormalizeUser(None)
    ELSE LET some == {i \in 1 .. 4 : Avatars(user)[i] # <<>> /\ Avatars(user)[i][1] # ""}
         IN  Obj([userId |-> AsId(user.id), nickname |-> Str(user.nickname),
                  uniqueId |-> Str(user.displayId), secUid |-> Str(user.secUid)]
                 @@ Maybe(some # {}, "avatarUrl",
                          Str(Avatars(user)[CHOOSE i \in some : \A j \in some : i <= j][1])))

RustEmotes(emotes) ==
    LET Usable(e) ==
          /\ e.emote # None
          /\ RustLen(e.emote.emoteId) <= MaxEmoteIdBytes
          /\ \/ e.emote.emoteId # <<>>
             \/ \E i \in DOMAIN e.emote.image : SanitizeImageUrl(e.emote.image[i])
        Live(e) ==
          LET images == SelectSeq(e.emote.image, SanitizeImageUrl)
          IN  Obj([id |-> Str(e.emote.emoteId)]
                  @@ Maybe(images # <<>>, "imageUrl", Str(images[1]))
                  @@ Maybe("index" \in DOMAIN e, "index", Num(e.index))
                  @@ Maybe(e.emote.emoteType # 0, "emoteType", Num(e.emote.emoteType))
                  @@ Maybe(e.emote.packageId # "", "packageId", Str(e.emote.packageId)))
        usable == SelectSeq(emotes, Usable)
    IN  [i \in 1 .. (IF Len(usable) < MaxEmotes THEN Len(usable) ELSE MaxEmotes) |->
           Live(usable[i])]

RustViewer(c) ==
    Obj([rank |-> Num(RustCount(c.rank)), score |-> Num(RustCount(c.score)),
         delta |-> Num(RustCount(c.delta)), user |-> RustUser(c.user)])

RustChat(m) ==
    LET emotes == RustEmotes(m.emotes)
    IN  [user |-> RustUser(m.user), comment |-> Str(m.content)]
        @@ Maybe(emotes # <<>>, "emotes", Arr(emotes))

RustEmoteChat(m) ==
    [user |-> RustUser(m.user),
     emotes |-> Arr(RustEmotes([i \in DOMAIN m.emoteList |-> [emote |-> m.emoteList[i]]]))]

RustGift(m) ==
    [user |-> RustUser(m.user), giftId |-> AsId(RustCount(m.giftId)),
     giftName |-> Str(IF m.gift = None THEN "" ELSE m.gift.name),
     diamondCount |-> Num(IF m.gift = None THEN 0 ELSE RustCount(m.gift.diamondCount)),
     repeatCount |-> Num(RustCount(m.repeatCount)), comboCount |-> Num(RustCount(m.comboCount)),
     groupId |-> AsId(RustCount(m.groupId)), repeatEnd |-> Bool(m.repeatEnd # 0)]

RustLike(m) ==
    [user |-> RustUser(m.user), count |-> Num(RustCount(m.count)), total |-> Num(RustCount(m.total))]

RustMember(m) ==
    [user |-> RustUser(m.user), memberCount |-> Num(RustCount(m.memberCount)),
     action |-> Num(m.action)]

RustSocial(m) ==
    [user |-> RustUser(m.user), action |-> Num(m.action),
     followCount |-> Num(RustCount(m.followCount)), shareCount |-> Num(RustCount(m.shareCount)),
     shareType |-> Num(m.shareType), shareTarget |-> Str(m.shareTarget),
     shareDisplayStyle |-> Num(m.shareDisplayStyle), followType |-> Num(m.followType),
     scene |-> Str(m.scene), targetUserId |-> AsId(m.targetUserId)]

RustRoomUser(m) ==
    LET ranks == Arr([i \in DOMAIN m.ranks |-> RustViewer(m.ranks[i])])
    IN  [viewers |-> Num(RustCount(m.total)), popularity |-> Num(RustCount(m.popularity)),
         totalUser |-> Num(RustCount(m.totalUser)), anonymous |-> Num(RustCount(m.anonymous)),
         topViewers |-> ranks, rankedViewers |-> ranks]

RustNormalize(type, m) ==
    CASE type = "chat" -> RustChat(m)
      [] type = "emoteChat" -> RustEmoteChat(m)
      [] type = "gift" -> RustGift(m)
      [] type = "like" -> RustLike(m)
      [] type = "member" -> RustMember(m)
      [] type = "social" -> RustSocial(m)
      [] type = "roomUser" -> RustRoomUser(m)

(* decode_event_envelope: a payload over MAX_EVENT_BYTES, or one with more *)
(* wire fields or levels than its budget, becomes LiveEvent::Unknown. What *)
(* is left of a batch's budget depends on the messages before it, so that  *)
(* whether a message fits is an input. Node has no such limit.             *)
RustUnknown == <<>>
RustDecode(type, m, fits) == IF fits THEN RustNormalize(type, m) ELSE RustUnknown
================================================================================
