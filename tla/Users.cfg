SPECIFICATION Spec
CHECK_DEADLOCK FALSE
CONSTANTS
    a = a
    b = b
    Percent = Percent
    Underscore = Underscore
    Backslash = Backslash
    Width = 1
    SaltLen = 1
    Password <- SomePasswords
    SlowHash <- Digest
    Id = {1, 2}
    Char <- Chars
    Name <- SomeNames
    Argument <- SomeArguments
INVARIANTS
    AcceptedIffHashesAgree
    SearchIsByPrefix
