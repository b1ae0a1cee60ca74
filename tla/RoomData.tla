-------------------------------- MODULE RoomData --------------------------------
(***************************************************************************)
(* The data of one Node client over its connections: the room it resolved, *)
(* the metadata and the gift table it read, and the events it builds from  *)
(* them (packages/tiktok-live/src/client.ts). Composes RoomDiscovery and   *)
(* EventAdapter; LiveClient has the generations and timers around it.      *)
(*                                                                         *)
(* TikTok's answers and messages are inputs; input and output hold the one *)
(* being handled and what became of it, until the caller has taken it.     *)
(***************************************************************************)
EXTENDS EventAdapter, RoomDiscovery

CONSTANTS
    Handle,             \* the uniqueId of the client
    LookupBodies, InfoBodies, GiftBodies, SearchBodies,
    Parse,              \* JSON.parse of the raw_data strings of the search
    Messages            \* [method, wire] pairs of the message socket

VARIABLES phase, roomId, roomInfo, gifts, input, output
vars == <<phase, roomId, roomInfo, gifts, input, output>>

NoGifts == <<>>
NoCall == [call |-> "none"]

Init ==
    /\ phase = "lookup"
    /\ roomId = "" /\ roomInfo = Null /\ gifts = NoGifts
    /\ input = NoCall /\ output = Throws("none")

(* What the call is given and what it returns. *)
Call(in, out) == input = NoCall /\ input' = in /\ output' = out

Taken ==
    /\ input # NoCall
    /\ input' = NoCall /\ output' = Throws("none")
    /\ UNCHANGED <<phase, roomId, roomInfo, gifts>>

(* Only a room that is broadcasting is remembered. *)
LookupRoom(body) ==
    LET lookup == RoomLookup(Handle, body)
        live == lookup.ok /\ lookup.value.fields.isLive.bool
    IN  /\ phase = "lookup"
        /\ Call([call |-> "lookup", body |-> body], lookup)
        /\ phase' = IF live THEN "info" ELSE "lookup"
        /\ roomId' = IF live THEN lookup.value.fields.roomId.text ELSE ""
        /\ UNCHANGED <<roomInfo, gifts>>

(* Metadata and gifts are read once per connection; a failure empties them. *)
FetchRoomInfo(body) ==
    LET info == RoomInfo(roomId, body)
    IN  /\ phase = "info"
        /\ Call([call |-> "info", body |-> body], info)
        /\ roomInfo' = IF info.ok THEN info.value ELSE Null
        /\ phase' = "gifts"
        /\ UNCHANGED <<roomId, gifts>>

FetchGifts(body) ==
    LET list == GiftList(body)
    IN  /\ phase = "gifts"
        /\ Call([call |-> "gifts", body |-> body], list)
        /\ gifts' = IF list.ok THEN list.value ELSE NoGifts
        /\ phase' = "open"
        /\ UNCHANGED <<roomId, roomInfo>>

(* The detail block a repeat gift leaves out, from the gift table. *)
Enrich(event) ==
    IF event.fields.type # Str("gift") THEN event
    ELSE LET gift == gifts[event.fields.giftId.text].fields
         IN  IF event.fields.giftId.text \notin DOMAIN gifts THEN event
             ELSE Obj([event.fields EXCEPT
                         !.giftName = IF Truthy(@) THEN @ ELSE gift.name,
                         !.diamondCount = IF Truthy(@) THEN @ ELSE gift.diamondCount]
                      @@ [streakable |-> gift.combo]
                      @@ Maybe(Truthy(gift.iconUrl), "giftIconUrl", gift.iconUrl))

(* One message of a batch, with the id and the history flag of its frame;  *)
(* whether it fits the limits of the Rust decoder is of no concern here.   *)
ReceiveMessage(message, msgId, isHistory, fits) ==
    LET event == Enrich(DecodeEvent(message.method, message.wire))
    IN  /\ phase = "open"
        /\ Call([call |-> "event", method |-> message.method, wire |-> message.wire,
                 msgId |-> msgId, fits |-> fits],
                Value(Obj([msgId |-> AsId(msgId), isHistory |-> Bool(isHistory)] @@ event.fields)))
        /\ UNCHANGED <<phase, roomId, roomInfo, gifts>>

(* The connection is lost and made again: the room is not looked up again. *)
Reconnect ==
    /\ phase = "open" /\ input = NoCall
    /\ phase' = "info"
    /\ UNCHANGED <<roomId, roomInfo, gifts, input, output>>

(* The search for rooms is independent of the connection. *)
Search(body) ==
    /\ phase = "lookup"
    /\ Call([call |-> "search", body |-> body], LiveChannels(body, Parse))
    /\ UNCHANGED <<phase, roomId, roomInfo, gifts>>

Next ==
    \/ Taken
    \/ \E body \in LookupBodies : LookupRoom(body)
    \/ \E body \in InfoBodies : FetchRoomInfo(body)
    \/ \E body \in GiftBodies : FetchGifts(body)
    \/ \E message \in Messages, msgId \in {-1, 1}, isHistory, fits \in BOOLEAN :
          ReceiveMessage(message, msgId, isHistory, fits)
    \/ Reconnect
    \/ \E body \in SearchBodies : Search(body)

Spec == Init /\ [][Next]_vars

(* state(), as the user reads it at any time. *)
ClientState ==
    Obj([uniqueId |-> Str(Handle), roomId |-> Str(roomId), connected |-> Bool(phase = "open"),
         roomInfo |-> roomInfo, giftCount |-> Num(Cardinality(DOMAIN gifts))])

--------------------------------------------------------------------------------
(* Properties *)

(* The users of a message, and its ids that the public schemas declare     *)
(* without a sign.                                                         *)
UsersOf(method, m) ==
    CASE method = "gift" -> {m.user, m.toUser}
      [] method = "roomUser" -> {m.ranks[i].user : i \in DOMAIN m.ranks}
      [] OTHER -> {m.user}

Ids(method, m) ==
    {user.id : user \in UsersOf(method, m) \ {None}}
    \cup IF method = "gift" THEN {m.giftId, m.groupId} ELSE {}

Decodes == input.call = "event" /\ input.method \in EventTypes /\ input.wire # Garbled

(* "json/public/ describes normalized objects exposed by ttl-live" (schema *)
(* README): whatever is on the wire and in the gift table, an event        *)
(* conforms to the schema of its type; the only exceptions are a negative  *)
(* id, that of the message too, and an avatar that is no URI, which the    *)
(* adapter passes through.                                                 *)
EventConforms ==
    input.call = "event" =>
      LET event == output.value
      IN  Check(event, SchemaOf(event.fields.type.text)) <=>
            /\ input.msgId >= 0
            /\ Decodes =>
               /\ \A id \in Ids(input.method, input.wire) : id >= 0
               /\ \A user \in UsersOf(input.method, input.wire) \ {None} :
                    AvatarUrl(user) = "" \/ IsUri(AvatarUrl(user))

(* The integers of a message: its counters. *)
Counters(method, m) ==
    CASE method = "gift" -> {m.repeatCount, m.comboCount, m.repeatEnd}
           \cup IF m.gift = None THEN {} ELSE {m.gift.diamondCount}
      [] method = "like" -> {m.count, m.total}
      [] method = "member" -> {m.memberCount, m.action}
      [] method = "social" -> {m.action, m.followCount, m.shareCount, m.shareType,
                               m.shareDisplayStyle, m.followType}
      [] method = "roomUser" -> {m.total, m.popularity, m.totalUser, m.anonymous}
           \cup UNION {{m.ranks[i].rank, m.ranks[i].score, m.ranks[i].delta} : i \in DOMAIN m.ranks}
      [] OTHER -> {}

(* The Node and the Rust adapter see the same event in the same message    *)
(* ("both implementations bound the same wire data", events.ts:66), as     *)
(* long as its counters fit a JavaScript number and none is negative; all  *)
(* that Rust says of a message beyond its limits is that it is unknown.    *)
EventsAgree ==
    Decodes
    /\ Counters(input.method, input.wire) \subseteq 0 .. MaxSafe
    /\ (\A id \in Ids(input.method, input.wire) : id >= 0) =>
      LET node == DecodeEvent(input.method, input.wire).fields
          rust == RustDecode(input.method, input.wire, input.fits)
      IN  \A key \in DOMAIN rust : key \in DOMAIN node /\ node[key] = rust[key]

(* TikTok sends an image for everything that has a URL in RoomInfo. *)
Image(v) == Elements(Field(v, "url_list")) # <<>>
Pictured(body) ==
    LET data == Field(body, "data")
    IN  /\ Image(Field(data, "cover"))
        /\ Image(Field(Field(data, "owner"), "avatar_thumb"))
        /\ Truthy(Field(data, "share_url")) /\ IsUri(Field(data, "share_url").text)

(* What the unsigned endpoints return conforms to the public schemas, and  *)
(* parseId never meets an id the validator has let through: the answer is  *)
(* refused as a whole or usable as a whole. The URLs are the exception:    *)
(* where TikTok sends no image they are empty, which their format is not,  *)
(* and the snapshot of state() inherits that.                              *)
DiscoveryConforms ==
    /\ Check(ClientState, ClientStateSchema) <=>
         (roomInfo = Null \/ Check(roomInfo, RoomInfoSchema))
    /\ output.ok \/ output.why # "id"
    /\ output.ok =>
         CASE input.call = "lookup" -> Check(output.value, RoomLookupSchema)
           [] input.call = "info" -> Check(output.value, RoomInfoSchema) <=> Pictured(input.body)
           [] input.call = "gifts" ->
                \A id \in DOMAIN output.value :
                  LET gift == output.value[id]
                  IN  Check(gift, GiftSchema) <=> Truthy(gift.fields.iconUrl)
           [] input.call = "search" ->
                \A i \in DOMAIN output.value : Check(output.value[i], LiveRoomSchema)
           [] OTHER -> TRUE

(* A client is given a room exactly when the Rust lookup calls the creator *)
(* live, and then the same one: an ended broadcast keeps its room id, and  *)
(* a missing one is "" or "0".                                             *)
LookupsAgree ==
    input.call = "lookup" /\ Check(input.body, TikTokRoomLookupResponseSchema) =>
      LET rust == RustLookup(input.body)
      IN  IF rust.ok /\ rust.value.isLive.bool
          THEN phase = "info" /\ Str(roomId) = rust.value.roomId
          ELSE phase = "lookup" /\ roomId = ""

(* "Ignore one malformed room while preserving the valid rooms in the same *)
(* response" (discovery.ts:257): the rooms are those of the valid entries, *)
(* most viewers first, and the ones the Rust search finds among them.      *)
SearchKeepsValidRooms ==
    input.call = "search" /\ Check(input.body, TikTokLiveSearchResponseSchema)
    /\ Field(input.body, "status_code") \in {Undefined, Num(0)}
    /\ Field(input.body, "data") # Undefined =>
      LET items == Elements(Field(input.body, "data"))
          valid == SelectSeq(items, LAMBDA item :
                     /\ RawData(item) # Undefined
                     /\ Check(Parse[RawData(item).text], TikTokSearchRoomSchema))
          rust == RustLiveSearch(Obj([data |-> Arr(valid)]), Parse)
      IN  /\ output.ok
          /\ {output.value[i] : i \in DOMAIN output.value} = rust.value
          /\ \A i, j \in DOMAIN output.value :
               i < j => output.value[i].fields.viewers.num >= output.value[j].fields.viewers.num

(* The Node and the Rust port read the same things out of what TikTok      *)
(* sends.                                                                  *)
RustAgrees == EventsAgree /\ LookupsAgree /\ SearchKeepsValidRooms

(* Everything that is exposed conforms to the public schemas, up to the    *)
(* exceptions the two parts name.                                          *)
Conforms == EventConforms /\ DiscoveryConforms
================================================================================
