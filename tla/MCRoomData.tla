------------------------------- MODULE MCRoomData -------------------------------
(***************************************************************************)
(* Small sets of answers and messages for RoomData: a full one of each     *)
(* kind, and every one that differs from it in a field or two.             *)
(***************************************************************************)
EXTENDS RoomData

(* The record without a field, and with every other value of a field. *)
Without(r, key) == [k \in DOMAIN r \ {key} |-> r[k]]
Vary(r, key, values) == {[r EXCEPT ![key] = v] : v \in values}
VaryAll(r, keys, values) == UNION {Vary(r, key, values) : key \in keys}
Optional(r, keys) == {Without(r, key) : key \in keys}

--------------------------------------------------------------------------------
(* Messages *)

Ints == {-1, 0, 1, 3, MaxSafe, MaxSafe + 1}

FullUser == [id |-> 2, nickname |-> "nick", displayId |-> "user", secUid |-> "sec",
             avatarThumb |-> <<"https://a">>, avatarMedium |-> <<>>, avatarLarge |-> <<>>,
             avatarJpg |-> <<"https://b">>]
MCUsers == {None, FullUser}
           \cup Vary(FullUser, "id", {-1, 0})
           \cup Vary(FullUser, "avatarThumb", {<<>>, <<"">>, <<"", "https://b">>, <<"plain">>})

(* Emote ids of one and two characters, some of them surrogate pairs. *)
Smile == <<55357, 56832>>
EmoteIds == {<<>>, <<65, 66>>, <<233>>, <<8364>>, Smile, Smile \o <<65>>}
Urls == {"https://a", "https://u@c", "https:///d", "ftp://e", "data:f", "https://a b", ""}
FullEmote == [emoteId |-> <<65>>, image |-> <<"https://a">>, emoteType |-> 0, packageId |-> ""]
MCEmotes == {None, FullEmote}
            \cup {[FullEmote EXCEPT !.emoteId = id, !.image = image] :
                    id \in EmoteIds, image \in {<<>>, <<"https://u@c", "https://b">>}}
            \cup {[FullEmote EXCEPT !.emoteId = <<>>, !.image = <<url>>] : url \in Urls}
            \cup {[FullEmote EXCEPT !.emoteType = 1, !.packageId = "p"]}

Listed == {None, FullEmote, [FullEmote EXCEPT !.emoteId = <<>>, !.image = <<>>]}
EmoteLists == {<<>>} \cup {<<e>> : e \in MCEmotes}
              \cup {<<e, f, g>> : e \in Listed, f \in Listed, g \in Listed}

Chat == [user |-> FullUser, content |-> "text", emotes |-> <<>>]
Gift == [user |-> FullUser, toUser |-> None, giftId |-> 1,
         gift |-> [name |-> "rose", diamondCount |-> 1],
         repeatCount |-> 1, comboCount |-> 1, groupId |-> 2, repeatEnd |-> 1]
Like == [user |-> FullUser, count |-> 1, total |-> 2]
Member == [user |-> FullUser, memberCount |-> 1, action |-> 1]
Social == [user |-> FullUser, action |-> 1, followCount |-> 1, shareCount |-> 1, shareType |-> 1,
           shareTarget |-> "", shareDisplayStyle |-> 1, followType |-> 1, scene |-> "",
           targetUserId |-> -1]
Contributor == [rank |-> 1, score |-> 1, delta |-> 1, user |-> FullUser]
RoomUser == [total |-> 1, popularity |-> 1, totalUser |-> 1, anonymous |-> 1,
             ranks |-> <<Contributor>>]
Contributors == VaryAll(Contributor, {"rank", "score", "delta"}, Ints)
                \cup Vary(Contributor, "user", MCUsers)

Wires(method) ==
    CASE method = "chat" ->
           Vary(Chat, "user", MCUsers)
           \cup Vary(Chat, "emotes", {[i \in DOMAIN s |-> [emote |-> s[i], index |-> i]] : s \in EmoteLists})
      [] method = "emoteChat" ->
           {[user |-> FullUser, emoteList |-> s] :
              s \in {s \in EmoteLists : \A i \in DOMAIN s : s[i] # None}}
      [] method = "gift" ->
           VaryAll(Gift, {"repeatCount", "comboCount", "giftId", "groupId", "repeatEnd"}, Ints)
           \cup VaryAll(Gift, {"user", "toUser"}, MCUsers)
           \cup {[Gift EXCEPT !.gift = gift, !.giftId = id] : id \in {1, 3},
                   gift \in {None, [name |-> "", diamondCount |-> 0]}
                            \cup Vary(Gift.gift, "diamondCount", Ints)}
      [] method = "like" -> VaryAll(Like, {"count", "total"}, Ints)
      [] method = "member" -> VaryAll(Member, {"memberCount", "action"}, Ints)
      [] method = "social" ->
           VaryAll(Social, {"action", "followCount", "shareCount", "shareType",
                            "shareDisplayStyle", "followType", "targetUserId"}, Ints)
      [] method = "roomUser" ->
           VaryAll(RoomUser, {"total", "popularity", "totalUser", "anonymous"}, Ints)
           \cup {[RoomUser EXCEPT !.ranks = <<Contributor, c>>] : c \in Contributors}

MCMessages ==
    UNION {{[method |-> method, wire |-> m] : m \in Wires(method)} : method \in EventTypes}
    \cup {[method |-> "gift", wire |-> Garbled], [method |-> "constructor", wire |-> Garbled]}

--------------------------------------------------------------------------------
(* Answers *)

NoFields == [key \in {} |-> Null]

Image1(url) == Obj([url_list |-> Arr(<<Str(url)>>)])
Images == {Image1("https://a"), Image1("plain"), Obj([url_list |-> Arr(<<>>)]), Obj(NoFields)}

LookupUsers ==
    LET full == [uniqueId |-> Str("user"), roomId |-> Str("1"), nickname |-> Str("nick"),
                 status |-> Num(2)]
        rooms == Vary(full, "roomId", {Str(""), Str("0"), Str("1"), Str("x"), Num(1), Null})
                 \cup {Without(full, "roomId")}
    IN  UNION {Vary(r, "status", {Num(0), Num(2), Num(4), Fraction, Str("2")})
               \cup {Without(r, "status")} : r \in rooms}
        \cup {Without(full, "uniqueId"), Without(full, "nickname")}

LiveRooms == {Obj([status |-> Num(2), title |-> Str("t")]), Obj([status |-> Num(4)]), Null}

MCLookupBodies ==
    {Obj([data |-> Obj([user |-> Obj(user)])]) : user \in LookupUsers}
    \cup {Obj([data |-> Obj([user |-> Obj(user), liveRoom |-> room])]) :
            user \in LookupUsers, room \in LiveRooms}
    \cup {Obj(NoFields), Null, Obj([data |-> Obj(NoFields)]), Obj([data |-> Obj([user |-> Null])])}

Stats == [total_user |-> Num(1), like_count |-> Num(1), comment_count |-> Num(1),
          share_count |-> Num(1), follow_count |-> Num(1)]
Owner == [id_str |-> Str("2"), display_id |-> Str("user"), nickname |-> Str("nick"),
          sec_uid |-> Str("sec"), avatar_thumb |-> Image1("https://a"),
          follow_info |-> Obj([follower_count |-> Num(1)])]
Info == [id_str |-> Str("1"), title |-> Str("t"), status |-> Num(2), user_count |-> Num(1),
         cover |-> Image1("https://a"), share_url |-> Str("https://b"), owner |-> Obj(Owner),
         stats |-> Obj(Stats)]
InfoBody(data) == Obj([status_code |-> Num(0), data |-> Obj(data)])
MCInfoBodies ==
    {InfoBody(data) :
       data \in {Info} \cup Optional(Info, {"id_str", "cover", "share_url", "owner", "stats"})
                \cup Vary(Info, "cover", Images)
                \cup Vary(Info, "share_url", {Str("plain"), Null})
                \cup Vary(Info, "owner", {Obj(o) : o \in Optional(Owner, DOMAIN Owner)})
                \cup Vary(Info, "stats", {Obj(s) : s \in Optional(Stats, {"total_user"})
                                            \cup Vary(Stats, "like_count", {Num(-1), Num(MaxSafe + 1)})})}
    \cup {Obj([status_code |-> Num(4)]), Obj([status_code |-> Num(0)]), Obj(NoFields)}

TableEntry == [id |-> Num(1), name |-> Str("rose"), diamond_count |-> Num(3), combo |-> Bool(TRUE),
               type |-> Num(1), icon |-> Image1("https://a")]
GiftBody(table) == Obj([status_code |-> Num(0), data |-> Obj([gifts |-> Arr(table)])])
MCGiftBodies ==
    {GiftBody(<<Obj(g)>>) :
       g \in {TableEntry} \cup Vary(TableEntry, "icon", Images)
             \cup Vary(TableEntry, "id", {Str("1"), Str("x"), Num(-1), Num(MaxSafe + 1), Fraction})
             \cup Optional(TableEntry, {"id", "name", "combo"})}
    \cup {GiftBody(<<Obj(TableEntry), Obj([TableEntry EXCEPT !.id = Str("1"), !.name = Str("new")]),
                     Obj([id |-> Num(2)])>>),
          Obj([status_code |-> Num(1)]), Obj([status_code |-> Num(0)])}

(* The rooms the strings of the search results parse to. *)
FoundRoom == [status |-> Num(2), id_str |-> Str("1"), title |-> Str("t"), user_count |-> Num(1),
              owner |-> Obj([display_id |-> Str("a"), nickname |-> Str("n")])]
MCParse ==
    ("one" :> Obj(FoundRoom)) @@
    ("two" :> Obj([FoundRoom EXCEPT !.id_str = Str("2"), !.user_count = Num(3)])) @@
    ("three" :> Obj(Without([FoundRoom EXCEPT !.id_str = Str("3")], "user_count"))) @@
    ("ended" :> Obj([FoundRoom EXCEPT !.status = Num(4)])) @@
    ("zero" :> Obj([FoundRoom EXCEPT !.id_str = Str("0")])) @@
    ("nobody" :> Obj(Without(FoundRoom, "owner"))) @@
    ("roomless" :> Obj(Without(FoundRoom, "id_str"))) @@
    ("bad id" :> Obj([FoundRoom EXCEPT !.id_str = Str("x")])) @@
    ("bad title" :> Obj([FoundRoom EXCEPT !.title = Num(1)])) @@
    ("list" :> Arr(<<>>)) @@
    ("cut" :> Garbage)
Item(raw) == Obj([live_info |-> Obj([raw_data |-> Str(raw)])])
Items == {Item(raw) : raw \in DOMAIN MCParse} \cup {Obj(NoFields)}
MCSearchBodies ==
    {Obj([data |-> Arr(<<a, b, c>>)]) : a \in Items, b \in Items, c \in Items}
    \cup {Obj([status_code |-> Num(2483), data |-> Arr(<<>>)]), Obj(NoFields), Null,
          Obj([status_code |-> Num(0), data |-> Arr(<<Item("one")>>)]),
          Obj([data |-> Arr(<<Obj([live_info |-> Obj([raw_data |-> Num(1)])])>>)])}
================================================================================
