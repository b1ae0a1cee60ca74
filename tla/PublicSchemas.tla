------------------------------ MODULE PublicSchemas ------------------------------
(***************************************************************************)
(* The generated schemas of packages/tiktok-live/src/gen/json: public/     *)
(* describes the objects the package hands to its users, tiktok/ what it   *)
(* accepts from TikTok. Titles, descriptions and type names are left out.  *)
(***************************************************************************)
EXTENDS JsonValidation

Text == [type |-> {"string"}]
Flag == [type |-> {"boolean"}]
Integer == [type |-> {"integer"}]
Count == [type |-> {"integer"}, minimum |-> 0, maximum |-> MaxSafe]
Url == [type |-> {"string"}, format |-> "uri"]
Matching(pattern) == [type |-> {"string"}, pattern |-> pattern]
Id == Matching(Digits)
IdOrEmpty == Matching(Digits \cup {""})

ArrayOf(schema) == [type |-> {"array"}, items |-> schema]
Open(properties) == [type |-> {"object"}, properties |-> properties]
OpenWith(properties, required) ==
    [type |-> {"object"}, properties |-> properties, required |-> required]
Closed(properties, required) ==
    [type |-> {"object"}, properties |-> properties, required |-> required, closed |-> TRUE]

--------------------------------------------------------------------------------
(* public/ *)

EventUserSchema ==
    Closed([userId |-> Id, nickname |-> Text, uniqueId |-> Text, secUid |-> Text,
            avatarUrl |-> Url],
           {"userId", "nickname", "uniqueId", "secUid"})

LiveEmoteSchema ==
    Closed([id |-> Text, shortcode |-> Text, imageUrl |-> Url, index |-> Integer,
            emoteType |-> Integer, packageId |-> Text],
           {"id"})

BaseEventSchema ==
    OpenWith([method |-> Text, msgId |-> Id, isHistory |-> Flag], {"method"})

(* The allOf of every event: the base, and the fields of its type. *)
Event(type, properties, required) ==
    [allOf |-> <<BaseEventSchema,
                 OpenWith([type |-> [const |-> Str(type)]] @@ properties,
                          {"type"} \cup required)>>]

ChatEventSchema ==
    Event("chat",
          [user |-> EventUserSchema, comment |-> Text, emotes |-> ArrayOf(LiveEmoteSchema)],
          {"user", "comment"})

EmoteChatEventSchema ==
    Event("emoteChat", [user |-> EventUserSchema, emotes |-> ArrayOf(LiveEmoteSchema)],
          {"user", "emotes"})

GiftEventSchema ==
    Event("gift",
          [user |-> EventUserSchema, toUser |-> EventUserSchema, giftId |-> Id,
           giftName |-> Text, diamondCount |-> Count, repeatCount |-> Count,
           comboCount |-> Count, groupId |-> Id, repeatEnd |-> Flag, streakable |-> Flag,
           giftIconUrl |-> Url],
          {"user", "toUser", "giftId", "giftName", "diamondCount", "repeatCount",
           "comboCount", "groupId", "repeatEnd"})

LikeEventSchema ==
    Event("like", [user |-> EventUserSchema, count |-> Count, total |-> Count],
          {"user", "count", "total"})

MemberEventSchema ==
    Event("member", [user |-> EventUserSchema, memberCount |-> Count, action |-> Count],
          {"user", "memberCount", "action"})

SocialEventSchema ==
    Event("social",
          [user |-> EventUserSchema, action |-> Count, followCount |-> Count,
           shareCount |-> Count, shareType |-> Count, shareTarget |-> Text,
           shareDisplayStyle |-> Count, followType |-> Count, scene |-> Text,
           targetUserId |-> Matching(SignedDigits)],
          {"user", "action", "followCount", "shareCount"})

TopViewerSchema ==
    Closed([rank |-> Count, score |-> Count, delta |-> Count, user |-> EventUserSchema],
           {"rank", "score", "delta", "user"})

RoomUserEventSchema ==
    Event("roomUser",
          [viewers |-> Count, popularity |-> Count, totalUser |-> Count, anonymous |-> Count,
           topViewers |-> ArrayOf(TopViewerSchema), rankedViewers |-> ArrayOf(TopViewerSchema)],
          {"viewers", "popularity", "totalUser", "anonymous", "topViewers", "rankedViewers"})

GiftSchema ==
    Closed([id |-> Id, name |-> Text, describe |-> Text, diamondCount |-> Count,
            combo |-> Flag, giftType |-> Count, iconUrl |-> Url],
           {"id", "name", "describe", "diamondCount", "combo", "giftType", "iconUrl"})

LiveRoomSchema ==
    Closed([uniqueId |-> Text, roomId |-> Id, nickname |-> Text, title |-> Text,
            viewers |-> Count],
           {"uniqueId", "roomId", "nickname", "title", "viewers"})

RoomLookupSchema ==
    Closed([uniqueId |-> Text, roomId |-> IdOrEmpty, nickname |-> Text, status |-> Integer,
            title |-> Text, isLive |-> Flag],
           {"uniqueId", "roomId", "nickname", "status", "title", "isLive"})

RoomOwnerSchema ==
    Closed([userId |-> IdOrEmpty, uniqueId |-> Text, nickname |-> Text, secUid |-> Text,
            avatarUrl |-> Url, followerCount |-> Count],
           {"userId", "uniqueId", "nickname", "secUid", "avatarUrl", "followerCount"})

RoomInfoSchema ==
    Closed([roomId |-> Id, title |-> Text, status |-> Integer, viewers |-> Count,
            likes |-> Count, comments |-> Count, shares |-> Count, follows |-> Count,
            coverUrl |-> Url, shareUrl |-> Url, owner |-> RoomOwnerSchema],
           {"roomId", "title", "status", "viewers", "likes", "comments", "shares", "follows",
            "coverUrl", "shareUrl", "owner"})

ClientStateSchema ==
    Closed([uniqueId |-> Text, roomId |-> IdOrEmpty, connected |-> Flag,
            roomInfo |-> [anyOf |-> <<RoomInfoSchema, [type |-> {"null"}]>>],
            giftCount |-> Count],
           {"uniqueId", "roomId", "connected", "roomInfo", "giftCount"})

--------------------------------------------------------------------------------
(* tiktok/ *)

TikTokImageSchema == Open([url_list |-> ArrayOf(Url)])

TikTokRoomLookupResponseSchema ==
    Open([data |-> Open([user |-> Open([uniqueId |-> Text, roomId |-> IdOrEmpty,
                                        nickname |-> Text, status |-> Integer]),
                         liveRoom |-> Open([status |-> Integer, title |-> Text])])])

TikTokRoomInfoResponseSchema ==
    OpenWith(
      [status_code |-> Integer,
       data |-> Open(
         [message |-> Text, id_str |-> Id, title |-> Text, status |-> Integer,
          user_count |-> Count, cover |-> TikTokImageSchema, share_url |-> Text,
          owner |-> Open([id_str |-> Id, display_id |-> Text, nickname |-> Text,
                          sec_uid |-> Text, avatar_thumb |-> TikTokImageSchema,
                          follow_info |-> Open([follower_count |-> Count])]),
          stats |-> Open([total_user |-> Count, like_count |-> Count, comment_count |-> Count,
                          share_count |-> Count, follow_count |-> Count])])],
      {"status_code"})

TikTokGiftListResponseSchema ==
    OpenWith(
      [status_code |-> Integer,
       data |-> Open(
         [message |-> Text,
          gifts |-> ArrayOf(OpenWith(
            [id |-> [anyOf |-> <<Id, Count>>], name |-> Text, describe |-> Text,
             diamond_count |-> Count, combo |-> Flag, type |-> Count,
             icon |-> TikTokImageSchema],
            {"id"}))])],
      {"status_code"})

TikTokLiveSearchResponseSchema ==
    Open([status_code |-> Integer, status_msg |-> Text,
          data |-> ArrayOf(Open([live_info |-> Open([raw_data |-> Text])]))])

TikTokSearchRoomSchema ==
    Open([status |-> Integer, id_str |-> Id, title |-> Text, user_count |-> Count,
          owner |-> Open([display_id |-> Text, nickname |-> Text])])
================================================================================
