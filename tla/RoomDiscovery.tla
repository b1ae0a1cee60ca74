------------------------------ MODULE RoomDiscovery ------------------------------
(***************************************************************************)
(* What the unsigned endpoints answer, and what becomes of it:             *)
(* packages/tiktok-live/src/discovery.ts, and beside it the room lookup    *)
(* and the live search of the Rust crates. A body is a JSON value of       *)
(* JsonValidation; a result is [ok |-> TRUE, value |-> ...], and a thrown  *)
(* error [ok |-> FALSE, why |-> ...].                                      *)
(***************************************************************************)
EXTENDS PublicSchemas, SequencesExt

RoomStatusLive == 2

Value(v) == [ok |-> TRUE, value |-> v]
Throws(why) == [ok |-> FALSE, why |-> why]

(* v?.key, and v ?? default. *)
Undefined == [t |-> "undefined"]
Field(v, key) == IF v.t = "object" /\ key \in DOMAIN v.fields THEN v.fields[key] ELSE Undefined
Or(v, default) == IF v.t \in {"undefined", "null"} THEN default ELSE v
Truthy(v) == v # Undefined /\ v # Str("") /\ v # Num(0) /\ v # Bool(FALSE)
Elements(v) == IF v.t = "array" THEN v.items ELSE <<>>

IsId(v) ==
    \/ v.t = "string" /\ v.text \in Digits
    \/ v.t = "number" /\ v.num \in 0 .. MaxSafe
ParseId(v) == IF v.t = "number" THEN Str(ToString(v.num)) ELSE v

FirstUrl(image) ==
    LET urls == Elements(Field(image, "url_list"))
    IN  IF urls = <<>> THEN Str("") ELSE urls[1]

--------------------------------------------------------------------------------

(* @handle -> room. *)
IsLiveRoom(status, roomId) ==
    status = Num(RoomStatusLive) /\ roomId # Str("") /\ roomId # Str("0")

RoomLookup(uniqueId, body) ==
    LET user == Field(Field(body, "data"), "user")
        liveRoom == Field(Field(body, "data"), "liveRoom")
        status == Or(Field(user, "status"), Or(Field(liveRoom, "status"), Num(0)))
        roomId == IF Truthy(Field(user, "roomId")) THEN ParseId(Field(user, "roomId")) ELSE Str("")
    IN  CASE ~Check(body, TikTokRoomLookupResponseSchema) -> Throws("invalid")
          [] user = Undefined -> Throws("no room data")
          [] Truthy(Field(user, "roomId")) /\ ~IsId(Field(user, "roomId")) -> Throws("id")
          [] OTHER -> Value(Obj(
               [uniqueId |-> Or(Field(user, "uniqueId"), Str(uniqueId)),
                roomId |-> roomId,
                nickname |-> Or(Field(user, "nickname"), Str("")),
                status |-> status,
                title |-> Or(Field(liveRoom, "title"), Str("")),
                isLive |-> Bool(IsLiveRoom(status, roomId))]))

RoomInfo(roomId, body) ==
    LET data == Field(body, "data")
        stats == Field(data, "stats")
        owner == Field(data, "owner")
    IN  CASE ~Check(body, TikTokRoomInfoResponseSchema) -> Throws("invalid")
          [] Field(body, "status_code") # Num(0) -> Throws("refused")
          [] OTHER -> Value(Obj(
               [roomId |-> Or(Field(data, "id_str"), Str(roomId)),
                title |-> Or(Field(data, "title"), Str("")),
                status |-> Or(Field(data, "status"), Num(0)),
                viewers |-> Or(Field(stats, "total_user"), Or(Field(data, "user_count"), Num(0))),
                likes |-> Or(Field(stats, "like_count"), Num(0)),
                comments |-> Or(Field(stats, "comment_count"), Num(0)),
                shares |-> Or(Field(stats, "share_count"), Num(0)),
                follows |-> Or(Field(stats, "follow_count"), Num(0)),
                coverUrl |-> FirstUrl(Field(data, "cover")),
                shareUrl |-> Or(Field(data, "share_url"), Str("")),
                owner |-> Obj(
                  [userId |-> Or(Field(owner, "id_str"), Str("")),
                   uniqueId |-> Or(Field(owner, "display_id"), Str("")),
                   nickname |-> Or(Field(owner, "nickname"), Str("")),
                   secUid |-> Or(Field(owner, "sec_uid"), Str("")),
                   avatarUrl |-> FirstUrl(Field(owner, "avatar_thumb")),
                   followerCount |->
                     Or(Field(Field(owner, "follow_info"), "follower_count"), Num(0))])]))

(* One gift of the table. *)
TableGift(gift) ==
    Obj([id |-> ParseId(Field(gift, "id")),
         name |-> Or(Field(gift, "name"), Str("")),
         describe |-> Or(Field(gift, "describe"), Str("")),
         diamondCount |-> Or(Field(gift, "diamond_count"), Num(0)),
         combo |-> Bool(Truthy(Field(gift, "combo"))),
         giftType |-> Or(Field(gift, "type"), Num(0)),
         iconUrl |-> FirstUrl(Field(gift, "icon"))])

(* The table, a function from ids to gifts; a later entry replaces an      *)
(* earlier one with its id.                                                *)
GiftTable(gifts) ==
    FoldLeft(LAMBDA table, gift : (ParseId(Field(gift, "id")).text :> TableGift(gift)) @@ table,
             <<>>, gifts)

GiftList(body) ==
    LET gifts == Elements(Field(Field(body, "data"), "gifts"))
    IN  CASE ~Check(body, TikTokGiftListResponseSchema) -> Throws("invalid")
          [] Field(body, "status_code") # Num(0) -> Throws("refused")
          [] \E i \in DOMAIN gifts : ~IsId(Field(gifts[i], "id")) -> Throws("id")
          [] OTHER -> Value(GiftTable(gifts))

(* One entry of the search feed, whose raw_data parses to room (Garbage    *)
(* when it is no JSON): the room as a sequence of at most one element.     *)
Garbage == [t |-> "garbage"]
RawData(item) == Field(Field(item, "live_info"), "raw_data")

SearchRoom(item, parse) ==
    LET raw == RawData(item)
        room == parse[raw.text]
        uniqueId == Or(Field(Field(room, "owner"), "display_id"), Str(""))
        roomId == Field(room, "id_str")
    IN  IF \/ ~Truthy(raw)
           \/ room = Garbage
           \/ ~Check(room, TikTokSearchRoomSchema)
           \/ Field(room, "status") # Num(RoomStatusLive)
           \/ ~Truthy(roomId) \/ roomId = Str("0") \/ ~Truthy(uniqueId)
        THEN <<>>
        ELSE <<Obj([uniqueId |-> uniqueId, roomId |-> ParseId(roomId),
                    nickname |-> Or(Field(Field(room, "owner"), "nickname"), Str("")),
                    title |-> Or(Field(room, "title"), Str("")),
                    viewers |-> Or(Field(room, "user_count"), Num(0))])>>

(* A stable sort of the rooms, most viewers first. *)
MostWatchedFirst(rooms) ==
    LET Viewers(i) == rooms[i].fields.viewers.num
        Before(i, j) == Viewers(i) > Viewers(j) \/ (Viewers(i) = Viewers(j) /\ i < j)
    IN  [n \in DOMAIN rooms |->
           rooms[CHOOSE i \in DOMAIN rooms :
                   Cardinality({j \in DOMAIN rooms : Before(j, i)}) = n - 1]]

LiveChannelsAllOrNothing(body, parse) ==
    LET items == Elements(Field(body, "data"))
        found == [i \in DOMAIN items |-> SearchRoom(items[i], parse)]
    IN  CASE ~Check(body, TikTokLiveSearchResponseSchema) -> Throws("invalid")
          [] Truthy(Field(body, "status_code")) -> Throws("refused")
          [] \E i \in DOMAIN items : Truthy(RawData(items[i]))
               /\ ~Check(parse[RawData(items[i]).text], TikTokSearchRoomSchema) -> Throws("invalid")
          [] OTHER -> Value(MostWatchedFirst(FlattenSeq(found)))
LiveChannels(body, parse) ==
    LET items == Elements(Field(body, "data"))
        found == [i \in DOMAIN items |-> SearchRoom(items[i], parse)]
    IN  CASE ~Check(body, TikTokLiveSearchResponseSchema) -> Throws("invalid")
          [] Truthy(Field(body, "status_code")) -> Throws("refused")
          [] OTHER -> Value(MostWatchedFirst(FlattenSeq(found)))

--------------------------------------------------------------------------------
(* The Rust lookup and search, which read fields leniently where the Node  *)
(* package validates the whole body first.                                 *)

StringAt(v, key) == IF Field(v, key).t = "string" THEN Field(v, key) ELSE Str("")
IntegerAt(v, key) == IF Field(v, key).t = "number" THEN Field(v, key) ELSE Undefined
IsUsableRoomId(roomId) == roomId # Str("") /\ roomId # Str("0")

RustLookup(body) ==
    LET user == Field(Field(body, "data"), "user")
        liveRoom == Field(Field(body, "data"), "liveRoom")
        status == Or(IntegerAt(user, "status"), Or(IntegerAt(liveRoom, "status"), Num(0)))
    IN  CASE user \in {Undefined, Null} -> Throws("user not found")
          [] user.t # "object" -> Throws("invalid")
          [] ~IsUsableRoomId(StringAt(user, "roomId")) -> Throws("no room")
          [] OTHER -> Value([roomId |-> StringAt(user, "roomId"), status |-> status,
                             title |-> StringAt(liveRoom, "title"),
                             isLive |-> Bool(status = Num(RoomStatusLive))])

RustSearchRoom(item, parse) ==
    LET room == parse[RawData(item).text]
        owner == Field(room, "owner")
    IN  IF \/ RawData(item).t # "string"
           \/ room = Garbage
           \/ IntegerAt(room, "status") # Num(RoomStatusLive)
           \/ StringAt(owner, "display_id") = Str("")
           \/ ~IsUsableRoomId(StringAt(room, "id_str"))
        THEN {}
        ELSE {Obj([uniqueId |-> StringAt(owner, "display_id"), roomId |-> StringAt(room, "id_str"),
                   nickname |-> StringAt(owner, "nickname"), title |-> StringAt(room, "title"),
                   viewers |-> IF Field(room, "user_count").t = "number"
                                  /\ Field(room, "user_count").num >= 0
                               THEN Field(room, "user_count") ELSE Num(0)])}

RustLiveSearch(body, parse) ==
    LET items == Elements(Field(body, "data"))
    IN  CASE IntegerAt(body, "status_code") \notin {Undefined, Num(0)} -> Throws("refused")
          [] Field(body, "data").t # "array" -> Throws("invalid")
          [] OTHER -> Value(UNION {RustSearchRoom(items[i], parse) : i \in DOMAIN items})
================================================================================
