CONSTANTS
    c1 = c1
    c2 = c2
    i1 = i1
    i2 = i2
    ROOT_INODE = root
    PASSWD_INODE = passwd
    Client = {c1, c2}
    Inode = {root, passwd, i1, i2}
    Name = {".", "..", "home", "passwd", "h", "hh"}
    Query = {"h", "hh"}
    Longest = {"hh"}
    Garbage = {"home"}
    Prefix <- MCPrefix
    Path <- MCPath
    Mode <- MCMode
    AccName = {n1, n2}
    MaxAccounts = 2
    NoName = NoName
    n1 = n1
    n2 = n2
SPECIFICATION Spec
SYMMETRY Interchangeable
INVARIANTS TypeOK OneName DotsLeadBack NamesApart AccountsApart
PROPERTIES UidsKeepOwner ArrivalsAllowed
