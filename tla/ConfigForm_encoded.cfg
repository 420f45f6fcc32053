\* Two forms, one with a special character.
CONSTANTS
    Server = server
    Tasks = {server, other}
    StringKeys = {"ssid", "ip"}
    NumberKeys = {"lamphue"}
    Char = {"v", "%", "6", "1"}
    Value <- Contents
    NUL = NUL
    FieldOrder <- Fields
    WriteOrder <- Fields
    Name <- Names
    Encode <- Codes
    Forms <- SomeForms
    Numbers <- OneNumber
    MaxBody = 9
SPECIFICATION FormSpec
INVARIANT
    SubmittedIsStored
