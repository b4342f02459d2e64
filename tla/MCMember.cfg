SPECIFICATION MemberSpec
CONSTANTS
    PlayerIDs <- MCPlayerIDs
    Infos <- MCInfos
    Gateways = {g1}
    NoGateway = NoGateway
    Times = {0, 1}
INVARIANT MembersOK
INVARIANT MembersDecode
PROPERTY ScriptsAgree
CHECK_DEADLOCK FALSE
