\* Numbers up to 5, of which 4 is the largest safe one; two emotes to an event, four bytes to an id.
CONSTANTS
    MaxSafe = 4
    MaxEmotes = 2
    MaxEmoteIdBytes = 4
    Handle = "user"
    LookupBodies <- MCLookupBodies
    InfoBodies <- MCInfoBodies
    GiftBodies <- MCGiftBodies
    SearchBodies <- MCSearchBodies
    Parse <- MCParse
    Messages <- MCMessages
SPECIFICATION Spec
INVARIANTS Conforms RustAgrees
